---- MODULE Spec2Model ----
(***************************************************************************)
(* Verification model of athola/tenant-ai: the applicant evaluation engine *)
(* (evaluation/rules.rs, evaluation/policy.rs), the compliance guard       *)
(* (compliance.rs), the vacancy workflow instance (vacancy/instance.rs)    *)
(* and the application service (applications/service.rs).                  *)
(*                                                                         *)
(* Conventions                                                             *)
(*  - Option<T> is a sequence of length at most one: None == <<>>,         *)
(*    Some(x) == <<x>>.                                                    *)
(*  - An f32 is a quotient [n, d] of two naturals. d = 0 encodes the two   *)
(*    non-finite results an unsigned division can give: n = 1 is +inf      *)
(*    (x / 0 with x > 0) and n = 0 is NaN (0 / 0). The operands used here  *)
(*    are far below 2^24, so `as f32` is exact, and IEEE division is       *)
(*    correctly rounded and monotone, so the comparisons of the quotients  *)
(*    with the thresholds used here agree with exact comparisons.          *)
(*  - A NaiveDate is an integer day number.                                *)
(***************************************************************************)
EXTENDS Integers, Sequences, FiniteSets, TLC

VARIABLES
    profile,        \* engine: the ApplicantProfile handed to score
    config,         \* engine: the EvaluationConfig of the EvaluationEngine
    outcome,        \* engine: Option<EvaluationOutcome> returned by score
    submission,     \* guard: the ApplicationSubmission handed to the guard
    policy,         \* guard: the CompliancePolicy of the ComplianceGuard
    guarded,        \* guard: Option<Result<ApplicantProfile, ComplianceViolation>>
    tasks,          \* workflow: VacancyWorkflowInstance.tasks
    called,         \* workflow: number of set_status calls made so far
    status_result,  \* workflow: Option<Result<(), VacancyError>> of the last call
    created,        \* workflow: Option of the dates VacancyWorkflowInstance::new was given
    status_call,    \* workflow: Option of the last set_status call: arguments, tasks before
    reported,       \* workflow: Option of the last report call: today, VacancyReport
    insights,       \* workflow: Option of the last insights call: today, VacancyInsights
    importer,       \* workflow: Option of the Apollo import under way: records, position, applied
    records,        \* service: the repository's map ApplicationId -> ApplicationRecord
    events,         \* service: the alerts handed to the AlertPublisher, in order
    sequence,       \* service: APPLICATION_SEQUENCE
    returned,       \* service: Option<Result<..>> of the last service call
    approvals,      \* service: per id, evaluate calls that reached Approved and were stored
    service_call,   \* service: Option of the last call: operation, arguments, state before
    response,       \* service: Option of the last HTTP response of status_handler
    threads         \* service: per concurrent submit call, its position and locals

vars == <<profile, config, outcome, submission, policy, guarded, tasks, called,
          status_result, created, status_call, reported, insights, importer,
          records, events, sequence, returned, approvals, service_call, response,
          threads>>

engineVars == <<profile, config, outcome>>
guardVars == <<submission, policy, guarded>>
workflowVars ==
    <<tasks, called, status_result, created, status_call, reported, insights,
      importer>>
serviceVars ==
    <<records, events, sequence, returned, approvals, service_call, response, threads>>

None == <<>>
Some(x) == <<x>>
IsSome(o) == Len(o) = 1
Unwrap(o) == o[1]

(***************************************************************************)
(* f32 quotients                                                           *)
(***************************************************************************)
Dec(n, d) == [n |-> n, d |-> d]
DecInf == Dec(1, 0)
DecNaN == Dec(0, 0)

\* `a as f32 / b as f32` for unsigned a, b
F32Div(a, b) ==
    IF b = 0 THEN (IF a = 0 THEN DecNaN ELSE DecInf) ELSE Dec(a, b)

DecIsNaN(x) == x.d = 0 /\ x.n = 0
DecIsInf(x) == x.d = 0 /\ x.n # 0

\* IEEE `a <= b`: false when either side is NaN
DecLE(a, b) ==
    /\ ~DecIsNaN(a)
    /\ ~DecIsNaN(b)
    /\ IF DecIsInf(a) THEN DecIsInf(b)
       ELSE IF DecIsInf(b) THEN TRUE
       ELSE a.n * b.d <= b.n * a.d

\* IEEE `a > b`: false when either side is NaN
DecGT(a, b) ==
    /\ ~DecIsNaN(a)
    /\ ~DecIsNaN(b)
    /\ IF DecIsInf(a) THEN ~DecIsInf(b)
       ELSE IF DecIsInf(b) THEN FALSE
       ELSE a.n * b.d > b.n * a.d

(***************************************************************************)
(* applications/domain.rs                                                  *)
(***************************************************************************)
LawfulFactorKind ==
    {"RentToIncome", "CreditScore", "RentalHistory", "CriminalHistoryWindow",
     "VoucherCoverage", "IowaSecurityDepositCompliance"}

\* LawfulFactorValue, with "Absent" for a key the map does not hold.
\* Decimal(n/d); Boolean(n = 1); Count(n); Text.
Absent == [t |-> "Absent", n |-> 0, d |-> 1]
Decimal(x) == [t |-> "Decimal", n |-> x.n, d |-> x.d]
Boolean(b) == [t |-> "Boolean", n |-> IF b THEN 1 ELSE 0, d |-> 1]
Count(c) == [t |-> "Count", n |-> c, d |-> 1]
Text == [t |-> "Text", n |-> 0, d |-> 1]

CriminalClassification == {"ViolentFelony", "NonViolentFelony", "Misdemeanor"}

VacancyApplicationStatus ==
    {"Submitted", "UnderReview", "Approved", "Denied", "Waitlisted"}

\* `x as u8` of an unsigned integer
AsU8(x) == x % 256

(***************************************************************************)
(* applications/evaluation/rules.rs: score_profile                         *)
(***************************************************************************)
\* the fallback ratio divides the income among the adults of the household
RentToIncomePerAdult(p) ==
    LET f == p.lawful_factors["RentToIncome"]
    IN  IF f.t = "Decimal" THEN Dec(f.n, f.d)
        ELSE F32Div(p.listing.listed_rent * p.household.adults,
                    p.declared_income.gross_monthly_income)

\* The lawful-factor ratio when it is a Decimal, else listed_rent / income.
RentToIncomeOf(p) ==
    LET f == p.lawful_factors["RentToIncome"]
    IN  IF f.t = "Decimal" THEN Dec(f.n, f.d)
        ELSE F32Div(p.listing.listed_rent, p.declared_income.gross_monthly_income)

\* rental_history.iter().filter(|r| r.filed_eviction).count()
CountFiled(history) ==
    Cardinality({i \in DOMAIN history : history[i].filed_eviction})

\* The lawful-factor count when it is a Count, else the filed evictions of the
\* raw history; either way narrowed with `as u8`.
EvictionCountOf(p) ==
    LET f == p.lawful_factors["RentalHistory"]
    IN  IF f.t = "Count" THEN AsU8(f.n) ELSE AsU8(CountFiled(p.rental_history))

\* components.push(ScoreComponent { factor, score, notes })
Push(acc, factor, score, notes) ==
    [acc EXCEPT !.components =
        Append(@, [factor |-> factor, score |-> score, notes |-> notes])]

\* total_score += delta (i16; the sum stays within -90 .. 70, far from the
\* limits of i16)
Add(acc, delta) == [acc EXCEPT !.total_score = @ + delta]

RentToIncomeStep(acc, rent_to_income, cfg) ==
    IF DecLE(rent_to_income, cfg.minimum_rent_to_income_ratio)
    THEN Add(Push(acc, "RentToIncome", 30, "within policy threshold"), 30)
    ELSE Add(Push(acc, "RentToIncome", -40, "exceeds required"), -40)

CreditScoreStepMissingAsBelow(acc, credit_score, cfg) ==
    IF IsSome(cfg.minimum_credit_score)
    THEN IF IsSome(credit_score) /\ Unwrap(credit_score) >= Unwrap(cfg.minimum_credit_score)
         THEN Add(Push(acc, "CreditScore", 20, "meets minimum"), 20)
         ELSE Add(Push(acc, "CreditScore", -25, "below minimum"), -25)
    ELSE acc

CreditScoreStep(acc, credit_score, cfg) ==
    IF IsSome(cfg.minimum_credit_score)
    THEN IF IsSome(credit_score)
         THEN IF Unwrap(credit_score) >= Unwrap(cfg.minimum_credit_score)
              THEN Add(Push(acc, "CreditScore", 20, "meets minimum"), 20)
              ELSE Add(Push(acc, "CreditScore", -25, "below minimum"), -25)
         ELSE Add(Push(acc, "CreditScore", -10, "missing credit history"), -10)
    ELSE acc

RentalHistoryStep(acc, eviction_count, cfg) ==
    IF eviction_count = 0
    THEN Add(Push(acc, "RentalHistory", 10, "no prior evictions"), 10)
    ELSE IF eviction_count <= cfg.max_evictions
         THEN Add(Push(acc, "RentalHistory", -10, "within policy"), -10)
         ELSE Add(Push(acc, "RentalHistory", -25, "exceeds allowance"), -25)

VoucherCoverageStep(acc, p) ==
    LET f == p.lawful_factors["VoucherCoverage"]
    IN  IF f.t = "Decimal" /\ DecGT(Dec(f.n, f.d), Dec(0, 1))
        THEN Add(Push(acc, "VoucherCoverage", 5, "voucher covers part of rent"), 5)
        ELSE acc

DepositComplianceStep(acc, p) ==
    IF p.lawful_factors["IowaSecurityDepositCompliance"] = Boolean(TRUE)
    THEN Add(Push(acc, "IowaSecurityDepositCompliance", 5, "security deposit within Iowa cap"), 5)
    ELSE acc

RECURSIVE ViolentFelonyStrictlyInside(_, _)
ViolentFelonyStrictlyInside(history, cfg) ==
    IF history = <<>> THEN None
    ELSE IF /\ history[1].classification = "ViolentFelony"
            /\ history[1].years_since < cfg.violent_felony_lookback_years
         THEN Some(history[1].description)
         ELSE ViolentFelonyStrictlyInside(Tail(history), cfg)

RECURSIVE FirstViolentFelony(_, _)
\* the loop over criminal_history, which breaks at the first match
FirstViolentFelony(history, cfg) ==
    IF history = <<>> THEN None
    ELSE IF /\ history[1].classification = "ViolentFelony"
            /\ history[1].years_since <= cfg.violent_felony_lookback_years
         THEN Some(history[1].description)
         ELSE FirstViolentFelony(Tail(history), cfg)

score_profile(p, cfg) ==
    LET rent_to_income == RentToIncomeOf(p)
        eviction_count == EvictionCountOf(p)
        a0 == [components |-> <<>>, total_score |-> 0]
        a1 == RentToIncomeStep(a0, rent_to_income, cfg)
        a2 == CreditScoreStep(a1, p.credit_score, cfg)
        a3 == RentalHistoryStep(a2, eviction_count, cfg)
        a4 == VoucherCoverageStep(a3, p)
        a5 == DepositComplianceStep(a4, p)
    IN  [components |-> a5.components,
         total_score |-> a5.total_score,
         signals |-> [rent_to_income |-> rent_to_income,
                      credit_score |-> p.credit_score,
                      eviction_count |-> eviction_count,
                      violent_felony |-> FirstViolentFelony(p.criminal_history, cfg)]]

(***************************************************************************)
(* applications/evaluation/policy.rs: ApplicationDecision, decide_outcome  *)
(***************************************************************************)
NoDec == Dec(0, 1)
Decision(kind, reason, required, actual, count, detail) ==
    [kind |-> kind, reason |-> reason, required_ratio |-> required,
     actual_ratio |-> actual, count |-> count, detail |-> detail]

Approved == Decision("Approved", "", NoDec, NoDec, 0, "")
ConditionalApproval ==
    Decision("ConditionalApproval", "", NoDec, NoDec, 0, "Adjust deposit to Iowa cap")
ManualReview(lookback, detail) ==
    Decision("ManualReview", "Recent violent felony", NoDec, NoDec, lookback, detail)
InsufficientIncome(required, actual) ==
    Decision("Denied", "InsufficientIncome", required, actual, 0, "")
AdverseCreditHistory == Decision("Denied", "AdverseCreditHistory", NoDec, NoDec, 0, "")
ExcessiveEvictions(count) ==
    Decision("Denied", "ExcessiveEvictions", NoDec, NoDec, count, "")

CreditFails(signals, cfg) ==
    /\ IsSome(cfg.minimum_credit_score)
    /\ \/ ~IsSome(signals.credit_score)
       \/ Unwrap(signals.credit_score) < Unwrap(cfg.minimum_credit_score)

\* the credit rule tried before the income rule
decide_outcome_credit_first(p, cfg, signals) ==
    IF IsSome(signals.violent_felony)
    THEN ManualReview(cfg.violent_felony_lookback_years, Unwrap(signals.violent_felony))
    ELSE IF CreditFails(signals, cfg)
    THEN AdverseCreditHistory
    ELSE IF DecGT(signals.rent_to_income, cfg.minimum_rent_to_income_ratio)
    THEN InsufficientIncome(cfg.minimum_rent_to_income_ratio, signals.rent_to_income)
    ELSE IF signals.eviction_count > cfg.max_evictions
    THEN ExcessiveEvictions(signals.eviction_count)
    ELSE IF p.lawful_factors["IowaSecurityDepositCompliance"] = Boolean(FALSE)
    THEN ConditionalApproval
    ELSE Approved

decide_outcome(p, cfg, signals) ==
    IF IsSome(signals.violent_felony)
    THEN ManualReview(cfg.violent_felony_lookback_years, Unwrap(signals.violent_felony))
    ELSE IF DecGT(signals.rent_to_income, cfg.minimum_rent_to_income_ratio)
    THEN InsufficientIncome(cfg.minimum_rent_to_income_ratio, signals.rent_to_income)
    ELSE IF CreditFails(signals, cfg)
    THEN AdverseCreditHistory
    ELSE IF signals.eviction_count > cfg.max_evictions
    THEN ExcessiveEvictions(signals.eviction_count)
    ELSE IF p.lawful_factors["IowaSecurityDepositCompliance"] = Boolean(FALSE)
    THEN ConditionalApproval
    ELSE Approved

(***************************************************************************)
(* applications/evaluation/mod.rs: EvaluationEngine::score                 *)
(***************************************************************************)
score(p, cfg) ==
    LET scored == score_profile(p, cfg)
    IN  [application_id |-> p.application_id,
         decision |-> decide_outcome(p, cfg, scored.signals),
         total_score |-> scored.total_score,
         components |-> scored.components]

(***************************************************************************)
(* Inputs of the engine specification                                      *)
(***************************************************************************)
MaxCriminal == 2    \* longest criminal history drawn
MaxHistory == 2     \* longest rental history drawn

SeqsUpTo(S, n) == UNION {[1..k -> S] : k \in 0..n}

\* infra.rs default_evaluation_config / tests/common.rs evaluation_config
LookbackYears == 7
MinimumCredit == 600
Threshold == Dec(3, 10)

Configs ==
    [minimum_rent_to_income_ratio : {Threshold},
     minimum_credit_score : {None, Some(MinimumCredit)},
     max_evictions : {0, 1},
     violent_felony_lookback_years : {LookbackYears},
     deposit_cap_multiplier : {Dec(2, 1)}]

\* CriminalRecord (jurisdiction is read by nothing and left out)
CriminalRecords ==
    {[classification |-> "ViolentFelony", years_since |-> LookbackYears,
      description |-> "Assault"],
     [classification |-> "ViolentFelony", years_since |-> LookbackYears + 1,
      description |-> "Robbery"],
     [classification |-> "NonViolentFelony", years_since |-> 2,
      description |-> "Fraud"]}

\* RentalReference (only filed_eviction is read)
RentalReferences == [filed_eviction : BOOLEAN]

Household(adults, children) ==
    [adults |-> adults, children |-> children, bedrooms_required |-> 1]
Listing(rent, deposit) ==
    [unit_id |-> "A-201", property_code |-> "APOLLO", listed_rent |-> rent,
     available_on |-> 100, deposit_required |-> deposit]
Income(gross, sources, voucher) ==
    [gross_monthly_income |-> gross, verified_income_sources |-> sources,
     housing_voucher_amount |-> voucher]

\* (RentToIncome factor, listed_rent, gross_monthly_income): the factor as a
\* Decimal below, at and above the threshold; no factor, or one of the wrong
\* type, with quotients 0, 1/4, 1/2, +inf and NaN.
IncomeCases ==
    ({Decimal(Dec(1, 4)), Decimal(Threshold), Decimal(Dec(2, 5))} \X {2} \X {4})
    \cup {<<Absent, 0, 4>>, <<Absent, 2, 8>>, <<Absent, 2, 4>>,
          <<Absent, 2, 0>>, <<Absent, 0, 0>>}
    \cup ({Count(1)} \X {2} \X {4})

\* (VoucherCoverage factor, IowaSecurityDepositCompliance factor): both
\* components emitted, either one alone, and neither, with the deposit factor
\* absent, true and false.
FactorCases ==
    {<<Absent, Absent>>,
     <<Decimal(Dec(0, 1)), Boolean(TRUE)>>,
     <<Decimal(Dec(3, 10)), Boolean(TRUE)>>,
     <<Decimal(Dec(3, 10)), Boolean(FALSE)>>,
     <<Absent, Boolean(FALSE)>>}

\* a rental history with one filed eviction more than a u8 can count
EvictionsPastU8 == [i \in 1..256 |-> [filed_eviction |-> TRUE]]

\* (RentalHistory factor, rental_history): a Count, small or past the range
\* of u8, beside a history that disagrees with it; no factor, or one of the
\* wrong type, with every history up to MaxHistory; 256 filed evictions,
\* with the factor that counts them and without a factor.
EvictionCases ==
    ({Count(0), Count(1), Count(2), Count(256), Count(257)}
        \X {<<[filed_eviction |-> TRUE]>>})
    \cup ({Absent} \X SeqsUpTo(RentalReferences, MaxHistory))
    \cup ({Text} \X {<<[filed_eviction |-> TRUE]>>})
    \cup ({Absent, Count(256)} \X {EvictionsPastU8})

EngineProfile(ic, credit, ec, voucher, deposit, criminal) ==
    [application_id |-> "app-000001",
     lawful_factors |->
        [k \in LawfulFactorKind |->
            CASE k = "RentToIncome" -> ic[1]
              [] k = "RentalHistory" -> ec[1]
              [] k = "VoucherCoverage" -> voucher
              [] k = "IowaSecurityDepositCompliance" -> deposit
              [] OTHER -> Absent],
     household |-> Household(1, 0),
     listing |-> Listing(ic[2], 0),
     declared_income |-> Income(ic[3], <<"Employer">>, None),
     rental_history |-> ec[2],
     credit_score |-> credit,
     criminal_history |-> criminal,
     accommodations |-> <<>>]

(***************************************************************************)
(* Idle values of the parts a specification does not use                   *)
(***************************************************************************)
EngineIdle == profile = None /\ config = None /\ outcome = None
GuardIdle == submission = None /\ policy = None /\ guarded = None
WorkflowIdle ==
    /\ tasks = <<>>
    /\ called = 0
    /\ status_result = None
    /\ created = None
    /\ status_call = None
    /\ reported = None
    /\ insights = None
    /\ importer = None
ServiceIdle ==
    /\ records = <<>>
    /\ events = <<>>
    /\ sequence = 0
    /\ returned = None
    /\ approvals = <<>>
    /\ service_call = None
    /\ response = None
    /\ threads = <<>>

(***************************************************************************)
(* SpecEngine: EvaluationEngine::score applied to one profile              *)
(***************************************************************************)
InitEngine ==
    /\ \E ic \in IncomeCases,
          credit \in {None, Some(MinimumCredit - 1), Some(MinimumCredit)},
          ec \in EvictionCases,
          fc \in FactorCases,
          criminal \in SeqsUpTo(CriminalRecords, MaxCriminal) :
            profile = EngineProfile(ic, credit, ec, fc[1], fc[2], criminal)
    /\ config \in Configs
    /\ outcome = None
    /\ GuardIdle /\ WorkflowIdle /\ ServiceIdle

Score ==
    /\ outcome = None
    /\ outcome' = Some(score(profile, config))
    /\ UNCHANGED <<profile, config, guardVars, workflowVars, serviceVars>>

NextEngine == Score

SpecEngine == InitEngine /\ [][NextEngine]_vars

(***************************************************************************)
(* Claims about the evaluation engine (checked under SpecEngine)           *)
(***************************************************************************)
HasRecentViolentFelony(p, cfg) ==
    \E i \in DOMAIN p.criminal_history :
        /\ p.criminal_history[i].classification = "ViolentFelony"
        /\ p.criminal_history[i].years_since <= cfg.violent_felony_lookback_years

CreditBelowPolicy(p, cfg) ==
    /\ cfg.minimum_credit_score # None
    /\ \/ p.credit_score = None
       \/ p.credit_score[1] < cfg.minimum_credit_score[1]

RECURSIVE SumScores(_)
SumScores(components) ==
    IF components = <<>> THEN 0
    ELSE components[1].score + SumScores(Tail(components))

\* C1: score picks the decision by ordered precedence, first match wins:
\* recent violent felony -> ManualReview; else ratio > threshold ->
\* Denied(InsufficientIncome{required, actual}); else a configured minimum
\* credit score missed or missing -> Denied(AdverseCreditHistory); else
\* eviction count > max_evictions -> Denied(ExcessiveEvictions(count)); else
\* deposit factor explicitly false -> ConditionalApproval; else Approved.
C1_DecisionPrecedence ==
    outcome # None =>
        LET p == profile
            cfg == config
            d == outcome[1].decision
            ratio == RentToIncomeOf(p)
            evictions == EvictionCountOf(p)
        IN  IF HasRecentViolentFelony(p, cfg)
            THEN d.kind = "ManualReview"
            ELSE IF DecGT(ratio, cfg.minimum_rent_to_income_ratio)
            THEN d = InsufficientIncome(cfg.minimum_rent_to_income_ratio, ratio)
            ELSE IF CreditBelowPolicy(p, cfg)
            THEN d = AdverseCreditHistory
            ELSE IF evictions > cfg.max_evictions
            THEN d = ExcessiveEvictions(evictions)
            ELSE IF p.lawful_factors["IowaSecurityDepositCompliance"] = Boolean(FALSE)
            THEN d = ConditionalApproval
            ELSE d = Approved

\* C1 witness: a profile that breaks rules 2, 3 and 4 at once was scored and
\* denied for the first of them, with the score fields filled in.
C1_Witness ==
    /\ outcome # None
    /\ ~HasRecentViolentFelony(profile, config)
    /\ DecGT(RentToIncomeOf(profile), config.minimum_rent_to_income_ratio)
    /\ CreditBelowPolicy(profile, config)
    /\ EvictionCountOf(profile) > config.max_evictions
    /\ outcome[1].decision.reason = "InsufficientIncome"

\* C4: a ViolentFelony entry with years_since <= lookback, at any position of
\* the criminal history, always gives ManualReview whatever the ratio, credit
\* score, evictions, deposit factor and total are; components and total are
\* still reported.
C4_ViolentFelonyManualReview ==
    (outcome # None /\ HasRecentViolentFelony(profile, config)) =>
        /\ outcome[1].decision.kind = "ManualReview"
        /\ Len(outcome[1].components) >= 2
        /\ outcome[1].components[1].factor = "RentToIncome"
        /\ outcome[1].total_score = SumScores(outcome[1].components)

\* C4 witness: the only violent felony is exactly at the lookback boundary and
\* in second position, behind an entry that does not count; the profile is
\* otherwise clean (ratio within, credit met, no eviction, deposit compliant).
C4_Witness ==
    /\ outcome # None
    /\ Len(profile.criminal_history) = 2
    /\ profile.criminal_history[1].classification = "NonViolentFelony"
    /\ profile.criminal_history[2].classification = "ViolentFelony"
    /\ profile.criminal_history[2].years_since = config.violent_felony_lookback_years
    /\ DecLE(RentToIncomeOf(profile), config.minimum_rent_to_income_ratio)
    /\ ~CreditBelowPolicy(profile, config)
    /\ EvictionCountOf(profile) = 0
    /\ profile.lawful_factors["IowaSecurityDepositCompliance"] = Boolean(TRUE)
    /\ outcome[1].decision.kind = "ManualReview"
    /\ outcome[1].total_score > 0

Component(factor, s) == [factor |-> factor, score |-> s]
Strip(components) ==
    [i \in DOMAIN components |->
        Component(components[i].factor, components[i].score)]

ExpectedComponents(p, cfg) ==
    LET ratio == RentToIncomeOf(p)
        evictions == EvictionCountOf(p)
        voucher == p.lawful_factors["VoucherCoverage"]
    IN  <<Component("RentToIncome",
                    IF DecLE(ratio, cfg.minimum_rent_to_income_ratio) THEN 30 ELSE -40)>>
        \o (IF cfg.minimum_credit_score = None THEN <<>>
            ELSE <<Component("CreditScore",
                     IF p.credit_score = None THEN -10
                     ELSE IF p.credit_score[1] >= cfg.minimum_credit_score[1]
                          THEN 20 ELSE -25)>>)
        \o <<Component("RentalHistory",
                    IF evictions = 0 THEN 10
                    ELSE IF evictions <= cfg.max_evictions THEN -10 ELSE -25)>>
        \o (IF voucher.t = "Decimal" /\ DecGT(Dec(voucher.n, voucher.d), Dec(0, 1))
            THEN <<Component("VoucherCoverage", 5)>> ELSE <<>>)
        \o (IF p.lawful_factors["IowaSecurityDepositCompliance"] = Boolean(TRUE)
            THEN <<Component("IowaSecurityDepositCompliance", 5)>> ELSE <<>>)

\* C7: the components come in the order RentToIncome, CreditScore,
\* RentalHistory, VoucherCoverage, IowaSecurityDepositCompliance with the
\* deltas +30/-40, +20/-25/-10 (only with a configured minimum), +10/-10/-25,
\* +5 (coverage > 0 only), +5 (factor true only), and the total is the signed
\* sum of the emitted components.
C7_ComponentsAndTotal ==
    outcome # None =>
        /\ Strip(outcome[1].components) = ExpectedComponents(profile, config)
        /\ outcome[1].total_score = SumScores(outcome[1].components)

\* C7 witness: all five components were emitted, the credit one for a missing
\* score and the rental one for evictions within the allowance.
C7_Witness ==
    /\ outcome # None
    /\ Len(outcome[1].components) = 5
    /\ profile.credit_score = None
    /\ outcome[1].components[2].score = -10
    /\ outcome[1].components[3].score = -10
    /\ outcome[1].total_score = 30 - 10 - 10 + 5 + 5

\* C27 as stated: when rules 1-3 do not apply and the number n of rental
\* history entries with a filed eviction (which the RentalHistory factor,
\* when it is a Count, repeats) exceeds max_evictions, the decision is
\* Denied(ExcessiveEvictions(n)) and the RentalHistory component is -25.
C27_AsStated ==
    outcome # None =>
        LET p == profile
            cfg == config
            n == CountFiled(p.rental_history)
            f == p.lawful_factors["RentalHistory"]
        IN  (/\ f.t = "Count" => f = Count(n)
             /\ ~HasRecentViolentFelony(p, cfg)
             /\ ~DecGT(RentToIncomeOf(p), cfg.minimum_rent_to_income_ratio)
             /\ ~CreditBelowPolicy(p, cfg)
             /\ n > cfg.max_evictions) =>
                /\ outcome[1].decision.kind = "Denied"
                /\ outcome[1].decision.reason = "ExcessiveEvictions"
                /\ outcome[1].decision.count = n
                /\ \E i \in DOMAIN outcome[1].components :
                        /\ outcome[1].components[i].factor = "RentalHistory"
                        /\ outcome[1].components[i].score = -25

(***************************************************************************)
(* Scoring reads nothing but the lawful inputs                             *)
(***************************************************************************)
\* profiles that differ from p only in the household, the accommodations
\* or the identity of the listing
OtherApplicants(p) ==
    {[p EXCEPT !.household = [adults |-> 2, children |-> 3, bedrooms_required |-> 3]],
     [p EXCEPT !.accommodations = <<"Wheelchair ramp", "Visual doorbell">>],
     [p EXCEPT !.listing.unit_id = "C-310", !.listing.property_code = "HILLTOP",
               !.listing.available_on = 131],
     [p EXCEPT !.household = [adults |-> 2, children |-> 3, bedrooms_required |-> 3],
               !.accommodations = <<"Wheelchair ramp", "Visual doorbell">>,
               !.listing.unit_id = "C-310", !.listing.property_code = "HILLTOP",
               !.listing.available_on = 131]}

\* C23: a profile that agrees with the scored one on the lawful factors,
\* credit score, criminal and rental history, listed rent and declared
\* income, and differs in household, accommodations or listing identity,
\* gets the same components, total score and decision under the same config.
C23_LawfulInputsOnly ==
    outcome # None =>
        \A other \in OtherApplicants(profile) :
            LET theirs == score(other, config)
            IN  /\ theirs.components = outcome[1].components
                /\ theirs.total_score = outcome[1].total_score
                /\ theirs.decision = outcome[1].decision

\* A profile without a RentToIncome factor is denied on the ratio computed
\* from rent and income, and so is the larger household with the same
\* rent and income.
C23_Witness ==
    /\ outcome # None
    /\ profile.lawful_factors["RentToIncome"] = Absent
    /\ outcome[1].decision.kind = "Denied"
    /\ \E other \in OtherApplicants(profile) :
            /\ other.household.adults # profile.household.adults
            /\ other.accommodations # profile.accommodations
            /\ score(other, config).decision = outcome[1].decision

(***************************************************************************)
(* applications/compliance.rs: CompliancePolicy                            *)
(***************************************************************************)
DefaultDepositCapMultiplier == Dec(2, 1)

\* CompliancePolicy::new: a multiplier that is not finite or not positive is
\* replaced by the default.
CompliancePolicyNew(deposit_cap_multiplier) ==
    [deposit_cap_multiplier |->
        IF deposit_cap_multiplier.d # 0 /\ deposit_cap_multiplier.n > 0
        THEN deposit_cap_multiplier
        ELSE DefaultDepositCapMultiplier]

\* the product rounded down instead of up
max_deposit_for_floor(pol, listed_rent) ==
    IF listed_rent = 0 THEN 0
    ELSE (listed_rent * pol.deposit_cap_multiplier.n)
            \div pol.deposit_cap_multiplier.d

\* (listed_rent as f64 * multiplier as f64).ceil().min(u32::MAX) as u32. The
\* multipliers drawn are dyadic and the rents small, so the f64 product is
\* exact and far below u32::MAX: the saturation never acts on the values of
\* this model and is left out.
max_deposit_for(pol, listed_rent) ==
    IF listed_rent = 0 THEN 0
    ELSE LET m == pol.deposit_cap_multiplier
             product == listed_rent * m.n
         IN  (product + m.d - 1) \div m.d

(***************************************************************************)
(* applications/compliance.rs: ComplianceGuard::profile_from_submission    *)
(***************************************************************************)
Violation(kind, practice, max, found) ==
    [kind |-> kind, practice |-> practice, max |-> max, found |-> found]
ProhibitedPractice(practice) == Violation("ProhibitedPractice", practice, 0, 0)
IowaSecurityDepositCap(max, found) == Violation("IowaSecurityDepositCap", "", max, found)
MissingIncomeDocumentation == Violation("MissingIncomeDocumentation", "", 0, 0)
IncompleteHousehold == Violation("IncompleteHousehold", "", 0, 0)

\* the checks without the zero-income check that follows the deposit check
FirstViolationNoZeroIncome(pol, s) ==
    LET deposit_cap == max_deposit_for(pol, s.listing.listed_rent)
    IN  IF s.screening_answers.prohibited_preferences # <<>>
        THEN Some(ProhibitedPractice(s.screening_answers.prohibited_preferences[1]))
        ELSE IF s.income.verified_income_sources = <<>>
        THEN Some(MissingIncomeDocumentation)
        ELSE IF s.household.adults = 0 /\ s.household.children = 0
        THEN Some(IncompleteHousehold)
        ELSE IF s.listing.deposit_required > deposit_cap
        THEN Some(IowaSecurityDepositCap(deposit_cap, s.listing.deposit_required))
        ELSE None

\* zero income rejected together with the empty sources, before the household
FirstViolationIncomeEarly(pol, s) ==
    LET deposit_cap == max_deposit_for(pol, s.listing.listed_rent)
    IN  IF s.screening_answers.prohibited_preferences # <<>>
        THEN Some(ProhibitedPractice(s.screening_answers.prohibited_preferences[1]))
        ELSE IF \/ s.income.verified_income_sources = <<>>
                \/ s.income.gross_monthly_income = 0
        THEN Some(MissingIncomeDocumentation)
        ELSE IF s.household.adults = 0 /\ s.household.children = 0
        THEN Some(IncompleteHousehold)
        ELSE IF s.listing.deposit_required > deposit_cap
        THEN Some(IowaSecurityDepositCap(deposit_cap, s.listing.deposit_required))
        ELSE None

\* the household checked before the income sources
FirstViolationHouseholdFirst(pol, s) ==
    LET deposit_cap == max_deposit_for(pol, s.listing.listed_rent)
    IN  IF s.screening_answers.prohibited_preferences # <<>>
        THEN Some(ProhibitedPractice(s.screening_answers.prohibited_preferences[1]))
        ELSE IF s.household.adults = 0 /\ s.household.children = 0
        THEN Some(IncompleteHousehold)
        ELSE IF s.income.verified_income_sources = <<>>
        THEN Some(MissingIncomeDocumentation)
        ELSE IF s.listing.deposit_required > deposit_cap
        THEN Some(IowaSecurityDepositCap(deposit_cap, s.listing.deposit_required))
        ELSE IF s.income.gross_monthly_income = 0
        THEN Some(MissingIncomeDocumentation)
        ELSE None

\* the early returns of profile_from_submission, in the order of the code
FirstViolation(pol, s) ==
    LET deposit_cap == max_deposit_for(pol, s.listing.listed_rent)
    IN  IF s.screening_answers.prohibited_preferences # <<>>
        THEN Some(ProhibitedPractice(s.screening_answers.prohibited_preferences[1]))
        ELSE IF s.income.verified_income_sources = <<>>
        THEN Some(MissingIncomeDocumentation)
        ELSE IF s.household.adults = 0 /\ s.household.children = 0
        THEN Some(IncompleteHousehold)
        ELSE IF s.listing.deposit_required > deposit_cap
        THEN Some(IowaSecurityDepositCap(deposit_cap, s.listing.deposit_required))
        ELSE IF s.income.gross_monthly_income = 0
        THEN Some(MissingIncomeDocumentation)
        ELSE None

\* fold(f32::INFINITY, f32::min) over years_since, for a non-empty history
MinYearsSince(history) ==
    CHOOSE y \in {history[i].years_since : i \in DOMAIN history} :
        \A i \in DOMAIN history : y <= history[i].years_since

\* the deposit factor recorded from a comparison of the deposit with the rent
GuardFactorsDepositCompared(s) ==
    [k \in LawfulFactorKind |->
        CASE k = "RentToIncome" ->
                Decimal(F32Div(s.listing.listed_rent, s.income.gross_monthly_income))
          [] k = "CreditScore" ->
                IF IsSome(s.credit_score) THEN Count(Unwrap(s.credit_score)) ELSE Absent
          [] k = "RentalHistory" -> Count(CountFiled(s.rental_history))
          [] k = "CriminalHistoryWindow" ->
                IF s.criminal_history # <<>>
                THEN Decimal(Dec(MinYearsSince(s.criminal_history), 1))
                ELSE Absent
          [] k = "VoucherCoverage" ->
                IF IsSome(s.income.housing_voucher_amount)
                THEN Decimal(F32Div(Unwrap(s.income.housing_voucher_amount),
                                    s.listing.listed_rent))
                ELSE Decimal(Dec(0, 1))
          [] k = "IowaSecurityDepositCompliance" ->
                Boolean(s.listing.deposit_required <= s.listing.listed_rent)]

\* the lawful factors inserted once every check has passed
GuardFactors(s) ==
    [k \in LawfulFactorKind |->
        CASE k = "RentToIncome" ->
                Decimal(F32Div(s.listing.listed_rent, s.income.gross_monthly_income))
          [] k = "CreditScore" ->
                IF IsSome(s.credit_score) THEN Count(Unwrap(s.credit_score)) ELSE Absent
          [] k = "RentalHistory" -> Count(CountFiled(s.rental_history))
          [] k = "CriminalHistoryWindow" ->
                IF s.criminal_history # <<>>
                THEN Decimal(Dec(MinYearsSince(s.criminal_history), 1))
                ELSE Absent
          [] k = "VoucherCoverage" ->
                IF IsSome(s.income.housing_voucher_amount)
                THEN Decimal(F32Div(Unwrap(s.income.housing_voucher_amount),
                                    s.listing.listed_rent))
                ELSE Decimal(Dec(0, 1))
          [] k = "IowaSecurityDepositCompliance" -> Boolean(TRUE)]

GuardProfile(s) ==
    [application_id |-> "pending",
     lawful_factors |-> GuardFactors(s),
     household |-> s.household,
     listing |-> s.listing,
     declared_income |-> s.income,
     rental_history |-> s.rental_history,
     credit_score |-> s.credit_score,
     criminal_history |-> s.criminal_history,
     accommodations |-> s.screening_answers.requested_accessibility_accommodations]

\* Result<ApplicantProfile, ComplianceViolation>
Ok(value) == [ok |-> TRUE, value |-> Some(value), error |-> None]
Err(error) == [ok |-> FALSE, value |-> None, error |-> Some(error)]

profile_from_submission(pol, s) ==
    LET violation == FirstViolation(pol, s)
    IN  IF IsSome(violation) THEN Err(Unwrap(violation)) ELSE Ok(GuardProfile(s))

(***************************************************************************)
(* SpecGuard: profile_from_submission applied to one submission            *)
(***************************************************************************)
MaxPractices == 2   \* most prohibited practices recorded on a submission

ProhibitedScreeningPractice ==
    {"SteeringBasedOnFamilialStatus", "BlanketCriminalHistoryBan"}

Submission(listing, household, prohibited, income, rental, credit, criminal) ==
    [listing |-> listing,
     household |-> household,
     screening_answers |->
        [prohibited_preferences |-> prohibited,
         requested_accessibility_accommodations |-> <<"Lowered countertop">>],
     income |-> income,
     rental_history |-> rental,
     credit_score |-> credit,
     criminal_history |-> criminal]

\* the multipliers a policy is built from: two usable ones, and three that
\* CompliancePolicy::new replaces (zero, negative, NaN)
RawMultipliers == {Dec(2, 1), Dec(3, 2), Dec(0, 1), Dec(-1, 1), DecNaN}

InitGuard ==
    /\ \E rent \in {0, 1, 3},
          deposit \in {0, 2, 3, 5, 6, 9},
          adults \in {0, 1},
          children \in {0, 1},
          prohibited \in SeqsUpTo(ProhibitedScreeningPractice, MaxPractices),
          gross \in {0, 4},
          sources \in {<<>>, <<"Employer">>},
          voucher \in {None, Some(1)},
          rental \in {<<>>, <<[filed_eviction |-> TRUE], [filed_eviction |-> FALSE]>>},
          credit \in {None, Some(MinimumCredit)},
          criminal \in {<<>>, <<[classification |-> "Misdemeanor", years_since |-> 6,
                                 description |-> "Expired registration"],
                                [classification |-> "ViolentFelony", years_since |-> 2,
                                 description |-> "Assault"]>>} :
            submission = Submission(Listing(rent, deposit), Household(adults, children),
                                    prohibited, Income(gross, sources, voucher),
                                    rental, credit, criminal)
    /\ policy \in {CompliancePolicyNew(m) : m \in RawMultipliers}
    /\ guarded = None
    /\ EngineIdle /\ WorkflowIdle /\ ServiceIdle

Guard ==
    /\ guarded = None
    /\ guarded' = Some(profile_from_submission(policy, submission))
    /\ UNCHANGED <<submission, policy, engineVars, workflowVars, serviceVars>>

NextGuard == Guard

SpecGuard == InitGuard /\ [][NextGuard]_vars

(***************************************************************************)
(* Claims about the compliance guard (checked under SpecGuard)             *)
(***************************************************************************)
Prohibited(s) == s.screening_answers.prohibited_preferences
NoSources(s) == s.income.verified_income_sources = <<>>
EmptyHousehold(s) == s.household.adults = 0 /\ s.household.children = 0
ZeroIncome(s) == s.income.gross_monthly_income = 0

\* ceil(listed_rent x multiplier), by its defining property: the least
\* integer c with c >= rent x n / d
CeilCap(pol, rent) ==
    LET m == pol.deposit_cap_multiplier
    IN  CHOOSE c \in 0..(rent * m.n) :
            /\ c * m.d >= rent * m.n
            /\ \A b \in 0..(rent * m.n) : b * m.d >= rent * m.n => c <= b

OverCap(pol, s) == s.listing.deposit_required > CeilCap(pol, s.listing.listed_rent)

\* C2: the checks run in the order prohibited practice, empty income sources,
\* empty household, deposit over the cap, zero income, and the error is that
\* of the first failing check; a profile is returned only when none fails. A
\* submission (past checks 1 and 2) with an empty household and zero income
\* reports IncompleteHousehold.
C2_FirstFailingCheck ==
    guarded # None =>
        LET s == submission
            r == guarded[1]
        IN  /\ IF Prohibited(s) # <<>>
               THEN ~r.ok /\ r.error[1] = ProhibitedPractice(Prohibited(s)[1])
               ELSE IF NoSources(s)
               THEN ~r.ok /\ r.error[1] = MissingIncomeDocumentation
               ELSE IF EmptyHousehold(s)
               THEN ~r.ok /\ r.error[1] = IncompleteHousehold
               ELSE IF OverCap(policy, s)
               THEN ~r.ok /\ r.error[1].kind = "IowaSecurityDepositCap"
               ELSE IF ZeroIncome(s)
               THEN ~r.ok /\ r.error[1] = MissingIncomeDocumentation
               ELSE r.ok /\ r.error = None /\ r.value # None
            /\ (/\ Prohibited(s) = <<>>
                /\ ~NoSources(s)
                /\ EmptyHousehold(s)
                /\ ZeroIncome(s)) => r.error = Some(IncompleteHousehold)

\* C2 witness: a submission with two prohibited practices that also fails
\* every later check was rejected for the first recorded practice.
C2_Witness ==
    /\ guarded # None
    /\ Len(Prohibited(submission)) = 2
    /\ Prohibited(submission)[1] # Prohibited(submission)[2]
    /\ NoSources(submission)
    /\ EmptyHousehold(submission)
    /\ OverCap(policy, submission)
    /\ ZeroIncome(submission)
    /\ guarded[1].error = Some(ProhibitedPractice(Prohibited(submission)[1]))

\* C5 as stated: every submission with empty verified income sources fails
\* with MissingIncomeDocumentation, whatever its other fields (prohibited
\* practices included).
C5_AsStated ==
    (guarded # None /\ NoSources(submission)) =>
        guarded[1].error = Some(MissingIncomeDocumentation)

\* C5 amended: every submission with no recorded prohibited practice and
\* empty verified income sources fails with MissingIncomeDocumentation,
\* whatever its household, deposit and income amount.
C5_EmptySourcesRejected ==
    (guarded # None /\ Prohibited(submission) = <<>> /\ NoSources(submission)) =>
        guarded[1].error = Some(MissingIncomeDocumentation)

\* C5 witness: empty sources together with an empty household and a deposit
\* over the cap, rejected for the missing income documentation.
C5_Witness ==
    /\ guarded # None
    /\ Prohibited(submission) = <<>>
    /\ NoSources(submission)
    /\ EmptyHousehold(submission)
    /\ OverCap(policy, submission)
    /\ ~ZeroIncome(submission)
    /\ guarded[1].error = Some(MissingIncomeDocumentation)

PassesFirstFour(pol, s) ==
    /\ Prohibited(s) = <<>>
    /\ ~NoSources(s)
    /\ ~EmptyHousehold(s)
    /\ ~OverCap(pol, s)

\* C28 as stated: the zero-income check after the deposit check is never
\* reached with a zero income, so a submission that passes the first four
\* checks has a non-zero gross monthly income and is not rejected.
C28_AsStated ==
    (guarded # None /\ PassesFirstFour(policy, submission)) =>
        ~ZeroIncome(submission) /\ guarded[1].ok

\* C28 amended: the zero-income check after the deposit check is reachable.
\* Verified income sources being recorded does not make the income amount
\* non-zero, and a submission that passes the first four checks is rejected
\* there, with MissingIncomeDocumentation, exactly when its gross monthly
\* income is zero; otherwise a profile is returned.
C28_ZeroIncomeCheckReached ==
    (guarded # None /\ PassesFirstFour(policy, submission)) =>
        IF ZeroIncome(submission)
        THEN guarded[1] = Err(MissingIncomeDocumentation)
        ELSE guarded[1].ok /\ guarded[1].value # None

\* C28 witness: verified sources recorded, a household, a deposit within the
\* cap and a zero income, rejected for the missing income documentation.
C28_Witness ==
    /\ guarded # None
    /\ PassesFirstFour(policy, submission)
    /\ submission.income.verified_income_sources # <<>>
    /\ submission.income.gross_monthly_income = 0
    /\ guarded[1] = Err(MissingIncomeDocumentation)

DepositCapError(pol, s) ==
    IowaSecurityDepositCap(CeilCap(pol, s.listing.listed_rent), s.listing.deposit_required)

\* C6 as stated: every submission with deposit_required > ceil(rent x
\* multiplier) fails with IowaSecurityDepositCap{max = that ceiling, found =
\* deposit_required}.
C6_AsStated ==
    (guarded # None /\ OverCap(policy, submission)) =>
        guarded[1].error = Some(DepositCapError(policy, submission))

\* C6 amended: every submission with no recorded prohibited practice,
\* non-empty verified income sources and a non-empty household whose
\* deposit_required exceeds ceil(rent x multiplier) fails with
\* IowaSecurityDepositCap{max = that ceiling, found = deposit_required}; with
\* multiplier 2.0 and rent > 0 a deposit of 3 x rent fails with max = 2 x rent
\* and found = 3 x rent; with rent 0 the cap is 0.
C6_DepositCap ==
    guarded # None =>
        LET s == submission
            rent == s.listing.listed_rent
            passed123 == Prohibited(s) = <<>> /\ ~NoSources(s) /\ ~EmptyHousehold(s)
        IN  /\ (passed123 /\ OverCap(policy, s)) =>
                    guarded[1].error = Some(DepositCapError(policy, s))
            /\ (/\ passed123
                /\ policy.deposit_cap_multiplier = Dec(2, 1)
                /\ rent > 0
                /\ s.listing.deposit_required = 3 * rent) =>
                    guarded[1].error = Some(IowaSecurityDepositCap(2 * rent, 3 * rent))
            /\ (passed123 /\ rent = 0 /\ s.listing.deposit_required > 0) =>
                    guarded[1].error =
                        Some(IowaSecurityDepositCap(0, s.listing.deposit_required))
            /\ (passed123 /\ rent = 0 /\ s.listing.deposit_required = 0) =>
                    \/ guarded[1].error = None
                    \/ guarded[1].error[1].kind # "IowaSecurityDepositCap"

\* C6 witness: rent 3 under multiplier 1.5 (cap ceil(4.5) = 5) with a deposit
\* of 6 was rejected with max 5 and found 6.
C6_Witness ==
    /\ guarded # None
    /\ policy.deposit_cap_multiplier = Dec(3, 2)
    /\ submission.listing.listed_rent = 3
    /\ submission.listing.deposit_required = 6
    /\ guarded[1].error = Some(IowaSecurityDepositCap(5, 6))

(***************************************************************************)
(* vacancy/domain.rs, vacancy/blueprint.rs: the task catalog               *)
(***************************************************************************)
TaskStatus == {"NotStarted", "InProgress", "Completed", "Blocked"}

DaysFromVacancy(offset) == [rule |-> "DaysFromVacancy", days |-> offset]
DaysBeforeMoveIn(days) == [rule |-> "DaysBeforeMoveIn", days |-> days]
OnMoveIn == [rule |-> "OnMoveIn", days |-> 0]

\* due dates kept inside the vacancy window
resolve_clamped(due, vacancy_start, target_move_in) ==
    LET raw == CASE due.rule = "DaysFromVacancy" -> vacancy_start + due.days
                 [] due.rule = "DaysBeforeMoveIn" -> target_move_in - due.days
                 [] due.rule = "OnMoveIn" -> target_move_in
    IN  IF raw < vacancy_start THEN vacancy_start
        ELSE IF raw > target_move_in THEN target_move_in
        ELSE raw

\* DueDateRule::resolve
resolve(due, vacancy_start, target_move_in) ==
    CASE due.rule = "DaysFromVacancy" -> vacancy_start + due.days
      [] due.rule = "DaysBeforeMoveIn" -> target_move_in - due.days
      [] due.rule = "OnMoveIn" -> target_move_in

\* TaskTemplate (name and deliverables are display text and left out; a
\* compliance note is its topic)
Template(key, stage, role, due, compliance) ==
    [key |-> key, stage |-> stage, primary_role |-> role, due |-> due,
     compliance |-> compliance]

standard_task_templates ==
    <<Template("marketing_publish_listing", "MarketingAndAdvertising", "LeasingAgent",
               DaysFromVacancy(0),
               <<"Iowa Code 562A.29 reasonable re-rental efforts">>),
      Template("marketing_update_appfolio", "MarketingAndAdvertising", "LeasingAgent",
               DaysFromVacancy(0),
               <<"System of record accuracy">>),
      Template("screening_manage_inquiries", "ScreeningAndApplication", "LeasingAgent",
               DaysFromVacancy(0),
               <<"Fair Housing and Iowa Civil Rights Act parity">>),
      Template("screening_process_applications", "ScreeningAndApplication", "LeasingAgent",
               DaysFromVacancy(2),
               <<"Documented screening criteria", "LIHTC source-of-income verification">>),
      Template("screening_notify_applicants", "ScreeningAndApplication", "LeasingAgent",
               DaysFromVacancy(2),
               <<"Adverse action documentation">>),
      Template("leasing_prepare_agreement", "LeaseSigningAndMoveIn", "LeasingAgent",
               DaysFromVacancy(5),
               <<"Lease artifact completeness">>),
      Template("leasing_collect_funds", "LeaseSigningAndMoveIn", "PropertyManagerAccounting",
               DaysBeforeMoveIn(5),
               <<"Security deposit limits">>),
      Template("leasing_conduct_move_in_inspection", "LeaseSigningAndMoveIn", "PropertyManager",
               OnMoveIn,
               <<"Move-in condition documentation">>),
      Template("leasing_lihtc_certification", "LeaseSigningAndMoveIn", "ComplianceCoordinator",
               DaysBeforeMoveIn(3),
               <<"LIHTC eligibility lock-in">>),
      Template("handoff_start_new_resident_workflow", "Handoff", "PropertyManager",
               OnMoveIn,
               <<"Operational handoff completeness">>)>>

(***************************************************************************)
(* vacancy/instance.rs: VacancyWorkflowInstance                            *)
(***************************************************************************)
\* VacancyWorkflowInstance::new
WorkflowNew(templates, vacancy_start, target_move_in) ==
    [i \in DOMAIN templates |->
        [template |-> templates[i],
         due_date |-> resolve(templates[i].due, vacancy_start, target_move_in),
         status |-> "NotStarted",
         completed_on |-> None]]

\* an unknown key falls back to the first task
FindTaskOrFirst(ts, task_key) ==
    IF \E i \in DOMAIN ts : ts[i].template.key = task_key
    THEN CHOOSE i \in DOMAIN ts :
            /\ ts[i].template.key = task_key
            /\ \A j \in DOMAIN ts : ts[j].template.key = task_key => i <= j
    ELSE 1

\* iter_mut().find(|instance| instance.template.key == task_key): the index
\* of the first task with that key, 0 when there is none
FindTask(ts, task_key) ==
    IF \E i \in DOMAIN ts : ts[i].template.key = task_key
    THEN CHOOSE i \in DOMAIN ts :
            /\ ts[i].template.key = task_key
            /\ \A j \in DOMAIN ts : ts[j].template.key = task_key => i <= j
    ELSE 0

\* the supplied date is stored whatever the status
StoredCompletionAsSupplied(status, completed_on) == completed_on

\* the completion date set_status stores
StoredCompletion(status, completed_on) ==
    IF status = "Completed" THEN completed_on ELSE None

TaskNotFound(task_key) == [ok |-> FALSE, value |-> None, error |-> Some(task_key)]

\* a status change that also clears the completion date of every other task
set_status_clearing_others(ts, task_key, status, completed_on) ==
    LET i == FindTask(ts, task_key)
    IN  IF i = 0
        THEN [tasks |-> ts, result |-> TaskNotFound(task_key)]
        ELSE [tasks |->
                [j \in DOMAIN ts |->
                    IF j = i
                    THEN [ts[j] EXCEPT !.status = status,
                                       !.completed_on =
                                            StoredCompletion(status, completed_on)]
                    ELSE [ts[j] EXCEPT !.completed_on = None]],
              result |-> Ok("unit")]

\* VacancyWorkflowInstance::set_status: the tasks and the result afterwards
set_status(ts, task_key, status, completed_on) ==
    LET i == FindTask(ts, task_key)
    IN  IF i = 0
        THEN [tasks |-> ts, result |-> TaskNotFound(task_key)]
        ELSE [tasks |-> [ts EXCEPT ![i].status = status,
                                   ![i].completed_on =
                                        StoredCompletion(status, completed_on)],
              result |-> Ok("unit")]

(***************************************************************************)
(* vacancy/instance.rs: VacancyWorkflowInstance::report                    *)
(***************************************************************************)
VacancyStage ==
    {"MarketingAndAdvertising", "ScreeningAndApplication", "LeaseSigningAndMoveIn",
     "Handoff"}
VacancyRole ==
    {"LeasingAgent", "PropertyManager", "PropertyManagerAccounting",
     "ComplianceCoordinator"}
ComplianceSeverity == {"Warning", "Critical"}

\* a task due today counts as overdue
IsOverdueInclusive(task, today) ==
    task.status # "Completed" /\ task.due_date <= today

\* task.status != TaskStatus::Completed && task.due_date < today
IsOverdue(task, today) ==
    task.status # "Completed" /\ task.due_date < today

\* TaskSnapshot (name is display text and left out)
TaskSnapshot(task) ==
    [key |-> task.template.key, stage |-> task.template.stage,
     role |-> task.template.primary_role, due_date |-> task.due_date,
     status |-> task.status]

\* ComplianceAlert (detail is display text and left out)
ComplianceAlert(task_key, topic, severity) ==
    [task_key |-> task_key, topic |-> topic, severity |-> severity]

\* alerts only for overdue tasks
AlertsOnlyWhenOverdue(task, today) ==
    IF IsOverdue(task, today)
    THEN [n \in DOMAIN task.template.compliance |->
            ComplianceAlert(task.template.key, task.template.compliance[n], "Critical")]
    ELSE <<>>

\* the alerts one task pushes: Critical for each note when overdue, else
\* Warning for each note when not Completed and there are notes
AlertsFor(task, today) ==
    IF IsOverdue(task, today)
    THEN [n \in DOMAIN task.template.compliance |->
            ComplianceAlert(task.template.key, task.template.compliance[n], "Critical")]
    ELSE IF task.status # "Completed" /\ task.template.compliance # <<>>
    THEN [n \in DOMAIN task.template.compliance |->
            ComplianceAlert(task.template.key, task.template.compliance[n], "Warning")]
    ELSE <<>>

RECURSIVE OverdueOf(_, _)
\* report.overdue_tasks as pushed by the loop over the tasks
OverdueOf(ts, today) ==
    IF ts = <<>> THEN <<>>
    ELSE (IF IsOverdue(Head(ts), today) THEN <<TaskSnapshot(Head(ts))>> ELSE <<>>)
            \o OverdueOf(Tail(ts), today)

RECURSIVE AlertsOf(_, _)
\* report.compliance_alerts as pushed by the loop over the tasks
AlertsOf(ts, today) ==
    IF ts = <<>> THEN <<>>
    ELSE AlertsFor(Head(ts), today) \o AlertsOf(Tail(ts), today)

\* one step of the stable sort: x goes behind every entry due no later
InsertByDueDate(sorted, x) ==
    LET k == Cardinality({i \in DOMAIN sorted : sorted[i].due_date <= x.due_date})
    IN  SubSeq(sorted, 1, k) \o <<x>> \o SubSeq(sorted, k + 1, Len(sorted))

\* the entries stay in the order they were pushed
KeepPushOrder(entries) == entries

RECURSIVE SortByDueDate(_)
\* overdue_tasks.sort_by(|a, b| a.due_date.cmp(&b.due_date)): a stable sort
SortByDueDate(entries) ==
    IF entries = <<>> THEN <<>>
    ELSE InsertByDueDate(SortByDueDate(SubSeq(entries, 1, Len(entries) - 1)),
                         entries[Len(entries)])

\* report.stage_progress: an entry per stage that has a task
StageProgressOf(ts) ==
    [stage \in {ts[i].template.stage : i \in DOMAIN ts} |->
        [completed |->
            Cardinality({i \in DOMAIN ts : /\ ts[i].template.stage = stage
                                           /\ ts[i].status = "Completed"}),
         total |-> Cardinality({i \in DOMAIN ts : ts[i].template.stage = stage})]]

\* report.role_load: an entry per role that has a task
RoleLoadOf(ts, today) ==
    [role \in {ts[i].template.primary_role : i \in DOMAIN ts} |->
        [open |->
            Cardinality({i \in DOMAIN ts : /\ ts[i].template.primary_role = role
                                           /\ ts[i].status # "Completed"}),
         overdue |->
            Cardinality({i \in DOMAIN ts : /\ ts[i].template.primary_role = role
                                           /\ ts[i].status # "Completed"
                                           /\ ts[i].due_date < today})]]

\* the report is built on top of the one returned before: a buffer that is
\* reused without being cleared
report_accumulating(ts, today) ==
    LET kept == IF reported = None THEN <<>> ELSE reported[1].report.overdue_tasks
    IN  [stage_progress |-> StageProgressOf(ts),
         role_load |-> RoleLoadOf(ts, today),
         overdue_tasks |-> SortByDueDate(kept \o OverdueOf(ts, today)),
         compliance_alerts |-> AlertsOf(ts, today)]

\* VacancyWorkflowInstance::report
report(ts, today) ==
    [stage_progress |-> StageProgressOf(ts),
     role_load |-> RoleLoadOf(ts, today),
     overdue_tasks |-> SortByDueDate(OverdueOf(ts, today)),
     compliance_alerts |-> AlertsOf(ts, today)]

(***************************************************************************)
(* f32 values of the readiness arithmetic: m / 2^e with |m| <= 2^24        *)
(***************************************************************************)
Pow2(k) == 2 ^ k

F32(m, e) == [m |-> m, e |-> e]
F32Zero == F32(0, 0)
F32One == F32(1, 0)

\* the least e with n * 2^e >= 2^23 * d, for 0 < n < d
ScaleFor(n, d) ==
    CHOOSE e \in 1..30 : /\ n * Pow2(e) >= Pow2(23) * d
                         /\ n * Pow2(e - 1) < Pow2(23) * d

\* a as f32 / b as f32 for 0 < a < b: the quotient rounded to 24 significant
\* bits, to nearest, ties to even
F32Quot(a, b) ==
    LET e == ScaleFor(a, b)
        num == a * Pow2(e)
        m == num \div b
        r == num % b
    IN  F32(IF 2 * r > b \/ (2 * r = b /\ m % 2 = 1) THEN m + 1 ELSE m, e)

\* the least k with p / 2^k < 2^24, for p < 2^31
DropFor(p) ==
    CHOOSE k \in 0..7 : /\ p \div Pow2(k) < Pow2(24)
                        /\ k > 0 => p \div Pow2(k - 1) >= Pow2(24)

\* x * 100.0 for x >= 0: the exact product rounded to 24 significant bits
F32Mul100(x) ==
    LET p == x.m * 100
        k == DropFor(p)
        m == p \div Pow2(k)
        r == p % Pow2(k)
    IN  IF k = 0 THEN F32(p, x.e)
        ELSE LET up == 2 * r > Pow2(k) \/ (2 * r = Pow2(k) /\ m % 2 = 1)
             IN  IF x.e >= k
                 THEN F32(IF up THEN m + 1 ELSE m, x.e - k)
                 ELSE F32((IF up THEN m + 1 ELSE m) * Pow2(k - x.e), 0)

\* f32::round for x >= 0, as an integer: halves go away from zero
F32Round(x) == (2 * x.m + Pow2(x.e)) \div Pow2(x.e + 1)

\* (x - 10.0).max(0.0) for x >= 0: the difference is exact when x >= 10
\* (both operands are multiples of the smaller unit in the last place and
\* the result is no larger than x), and 0.0 otherwise
F32Sub10Max0(x) ==
    IF x.m <= 10 * Pow2(x.e) THEN F32Zero ELSE F32(x.m - 10 * Pow2(x.e), x.e)

\* (n as f32) < x for an integer n
IntLtF32(n, x) == n * Pow2(x.e) < x.m

(***************************************************************************)
(* vacancy/report/summary.rs, vacancy/report/insights.rs                   *)
(***************************************************************************)
\* VacancyStage::ordered
StagesOrdered ==
    <<"MarketingAndAdvertising", "ScreeningAndApplication", "LeaseSigningAndMoveIn",
      "Handoff">>

\* VacancyRole::ordered
RolesOrdered ==
    <<"LeasingAgent", "ComplianceCoordinator", "PropertyManager",
      "PropertyManagerAccounting">>

\* VacancyStage::label
StageLabel(stage) ==
    CASE stage = "MarketingAndAdvertising" -> "Marketing & Advertising"
      [] stage = "ScreeningAndApplication" -> "Screening & Application"
      [] stage = "LeaseSigningAndMoveIn" -> "Lease Signing & Move-In"
      [] stage = "Handoff" -> "Handoff"

RECURSIVE StageProgressEntries(_, _)
\* summary().stage_progress: an entry for each stage of ordered() that the
\* report has, in that order
StageProgressEntries(progress, stages) ==
    IF stages = <<>> THEN <<>>
    ELSE (IF Head(stages) \in DOMAIN progress
          THEN <<[stage |-> Head(stages), stage_label |-> StageLabel(Head(stages)),
                  completed |-> progress[Head(stages)].completed,
                  total |-> progress[Head(stages)].total]>>
          ELSE <<>>) \o StageProgressEntries(progress, Tail(stages))

RECURSIVE RoleLoadEntries(_, _)
\* summary().role_load: an entry for each role of ordered() that the report has
RoleLoadEntries(load, roles) ==
    IF roles = <<>> THEN <<>>
    ELSE (IF Head(roles) \in DOMAIN load
          THEN <<[role |-> Head(roles), open |-> load[Head(roles)].open,
                  overdue |-> load[Head(roles)].overdue]>>
          ELSE <<>>) \o RoleLoadEntries(load, Tail(roles))

\* VacancyReport::summary
report_summary(rep) ==
    [stage_progress |-> StageProgressEntries(rep.stage_progress, StagesOrdered),
     role_load |-> RoleLoadEntries(rep.role_load, RolesOrdered),
     overdue_tasks |-> rep.overdue_tasks,
     compliance_alerts |-> rep.compliance_alerts]

\* readiness_score: ((completed / total) * 100.0).round(), clamped to 0..100
ReadinessScore(completed, total) ==
    LET ratio == IF completed = 0 THEN F32Zero
                 ELSE IF completed = total THEN F32One
                 ELSE F32Quot(completed, total)
        rounded == IF total > 0 THEN F32Round(F32Mul100(ratio)) ELSE 0
    IN  IF rounded > 100 THEN 100 ELSE rounded

\* expected_completion_pct: the elapsed fraction of the window clamped to
\* [0, 1], 1.0 when the window is not positive
ExpectedCompletionPct(days_since_vacancy, vacancy_window) ==
    IF vacancy_window > 0
    THEN IF days_since_vacancy <= 0 THEN F32Zero
         ELSE IF days_since_vacancy >= vacancy_window THEN F32One
         ELSE F32Quot(days_since_vacancy, vacancy_window)
    ELSE F32One

\* at_risk_due_to_progress:
\* (readiness_score as f32) < ((expected_completion_pct * 100.0) - 10.0).max(0.0)
AtRiskDueToProgress(readiness_score, days_since_vacancy, vacancy_window) ==
    IntLtF32(readiness_score,
             F32Sub10Max0(F32Mul100(ExpectedCompletionPct(days_since_vacancy,
                                                          vacancy_window))))

\* readiness_level: the first rule that matches
ReadinessLevel(readiness_score, overdue_count, days_until_move_in, open_tasks, days_since_vacancy, vacancy_window) ==
    IF readiness_score >= 80 /\ overdue_count = 0 THEN "OnTrack"
    ELSE IF readiness_score >= 60 /\ overdue_count <= 1 /\ days_until_move_in > 3
    THEN "Monitor"
    ELSE IF (days_until_move_in <= 0 /\ open_tasks > 0)
            \/ AtRiskDueToProgress(readiness_score, days_since_vacancy, vacancy_window)
    THEN "AtRisk"
    ELSE "Monitor"

RECURSIVE Incomplete(_)
\* stage_progress.iter().filter(|entry| entry.total > entry.completed)
Incomplete(entries) ==
    IF entries = <<>> THEN <<>>
    ELSE (IF Head(entries).total > Head(entries).completed
          THEN <<Head(entries)>> ELSE <<>>) \o Incomplete(Tail(entries))

\* the first of the entries with the most outstanding tasks
FirstMaxOutstanding(entries) ==
    LET open == Incomplete(entries)
    IN  IF open = <<>> THEN None
        ELSE Some(open[CHOOSE i \in DOMAIN open :
                    /\ \A j \in DOMAIN open :
                            open[j].total - open[j].completed
                                <= open[i].total - open[i].completed
                    /\ \A j \in DOMAIN open :
                            j < i => open[j].total - open[j].completed
                                        < open[i].total - open[i].completed])

\* .filter(..).max_by_key(|entry| entry.total - entry.completed): of several
\* entries with the greatest key, Iterator::max_by_key returns the last
FocusStage(entries) ==
    LET open == Incomplete(entries)
    IN  IF open = <<>> THEN None
        ELSE Some(open[CHOOSE i \in DOMAIN open :
                    /\ \A j \in DOMAIN open :
                            open[j].total - open[j].completed
                                <= open[i].total - open[i].completed
                    /\ \A j \in DOMAIN open :
                            j > i => open[j].total - open[j].completed
                                        < open[i].total - open[i].completed])

\* generate_insights (the narrative lists, text built from the same
\* counters, are left out)
generate_insights(smry, ts, vacancy_start, target_move_in, today) ==
    LET total_tasks == Len(ts)
        completed_tasks == Cardinality({i \in DOMAIN ts : ts[i].status = "Completed"})
        readiness_score == ReadinessScore(completed_tasks, total_tasks)
        overdue_count == Len(smry.overdue_tasks)
        open_tasks == total_tasks - completed_tasks
        days_until_move_in == target_move_in - today
        days_since_vacancy == today - vacancy_start
        vacancy_window == target_move_in - vacancy_start
        focus_stage == FocusStage(smry.stage_progress)
    IN  [readiness_score |-> readiness_score,
         readiness_level |->
            ReadinessLevel(readiness_score, overdue_count, days_until_move_in,
                           open_tasks, days_since_vacancy, vacancy_window),
         expected_completion_pct |->
            ExpectedCompletionPct(days_since_vacancy, vacancy_window),
         days_until_move_in |-> days_until_move_in,
         days_since_vacancy |-> days_since_vacancy,
         focus_stage |->
            IF focus_stage = None THEN None ELSE Some(focus_stage[1].stage_label),
         focus_stage_completion |->
            IF focus_stage = None THEN None
            ELSE IF focus_stage[1].completed = 0 THEN Some(F32Zero)
            ELSE Some(F32Quot(focus_stage[1].completed, focus_stage[1].total))]

(***************************************************************************)
(* SpecWorkflow: set_status and report calls on a fresh instance           *)
(***************************************************************************)
MaxCalls == 3       \* set_status calls made on one instance

VacancyStarts == {100, 102}
MoveInTargets == {103, 114}
CompletionDates == {None, Some(105)}
\* the keys set_status is called with: tasks of three due-date rules, one of
\* them with two compliance notes, and a key no task has
TaskKeys ==
    {"marketing_publish_listing", "screening_process_applications",
     "leasing_collect_funds", "non_existent_task"}
\* the days report is asked about: on and just after the earlier vacancy
\* start, between the due dates, and after every due date
Todays == {100, 101, 104, 120}

InitWorkflow ==
    /\ \E vacancy_start \in VacancyStarts, target_move_in \in MoveInTargets :
            /\ tasks = WorkflowNew(standard_task_templates, vacancy_start,
                                   target_move_in)
            /\ created = Some([vacancy_start |-> vacancy_start,
                               target_move_in |-> target_move_in])
    /\ called = 0
    /\ status_result = None
    /\ status_call = None
    /\ reported = None
    /\ insights = None
    /\ importer = None
    /\ EngineIdle /\ GuardIdle /\ ServiceIdle

SetStatus ==
    /\ called < MaxCalls
    /\ \E task_key \in TaskKeys, status \in TaskStatus, completed_on \in CompletionDates :
            LET after == set_status(tasks, task_key, status, completed_on)
            IN  /\ tasks' = after.tasks
                /\ status_result' = Some(after.result)
                /\ status_call' = Some([task_key |-> task_key, status |-> status,
                                        completed_on |-> completed_on,
                                        before |-> tasks])
    /\ called' = called + 1
    /\ reported' = None
    /\ UNCHANGED <<created, insights, importer, engineVars, guardVars, serviceVars>>

\* report(today) reads the tasks and returns a VacancyReport; repeated says
\* that the call before it was a report for the same day
Report ==
    /\ \E today \in Todays :
            reported' = Some([today |-> today, report |-> report(tasks, today),
                              repeated |-> /\ reported # None
                                           /\ reported[1].today = today])
    /\ status_result' = None
    /\ status_call' = None
    /\ UNCHANGED <<tasks, called, created, insights, importer, engineVars, guardVars,
                   serviceVars>>

NextWorkflow == SetStatus \/ Report

SpecWorkflow == InitWorkflow /\ [][NextWorkflow]_vars

(***************************************************************************)
(* Claims about the workflow instance (checked under SpecWorkflow)         *)
(***************************************************************************)
\* C3: after any sequence of set_status calls (any keys, statuses and
\* completedOn arguments, absent included) every task has a completion date
\* if and only if its status is Completed.
C3_CompletionDateIffCompleted ==
    \A i \in DOMAIN tasks :
        (tasks[i].completed_on # None) <=> (tasks[i].status = "Completed")

\* the index of the first task of `ts` with the key, where there is one
IndexOfKey(ts, key) ==
    CHOOSE i \in DOMAIN ts :
        /\ ts[i].template.key = key
        /\ \A j \in DOMAIN ts : ts[j].template.key = key => i <= j

HasKey(ts, key) == \E i \in DOMAIN ts : ts[i].template.key = key

\* C12: set_status with a key that matches no task fails with TaskNotFound
\* carrying exactly that key, whatever status and completedOn were passed,
\* and leaves the status and completion date of every task as they were.
C12_UnknownKeyTaskNotFound ==
    (status_call # None /\ ~HasKey(status_call[1].before, status_call[1].task_key)) =>
        /\ status_result # None
        /\ ~status_result[1].ok
        /\ status_result[1].error = Some(status_call[1].task_key)
        /\ Len(tasks) = Len(status_call[1].before)
        /\ \A i \in DOMAIN tasks :
                /\ tasks[i].status = status_call[1].before[i].status
                /\ tasks[i].completed_on = status_call[1].before[i].completed_on

\* C12 witness: after a task was completed with a date, set_status with an
\* unknown key, status Completed and a date failed and changed nothing.
C12_Witness ==
    /\ status_call # None
    /\ status_call[1].task_key = "non_existent_task"
    /\ status_call[1].status = "Completed"
    /\ status_call[1].completed_on = Some(105)
    /\ status_result # None
    /\ ~status_result[1].ok
    /\ \E i \in DOMAIN tasks :
            tasks[i].status = "Completed" /\ tasks[i].completed_on = Some(105)
    /\ \E i \in DOMAIN tasks : tasks[i].status = "NotStarted"

\* C13: a task has an entry in overdue_tasks if and only if it is not
\* Completed and due strictly before today; each such task has one entry,
\* carrying its due date and status.
C13_OverdueIff ==
    reported # None =>
        LET today == reported[1].today
            overdue == reported[1].report.overdue_tasks
        IN  /\ \A i \in DOMAIN tasks :
                    (tasks[i].status # "Completed" /\ tasks[i].due_date < today)
                        <=> (\E j \in DOMAIN overdue :
                                overdue[j].key = tasks[i].template.key)
            /\ \A j, k \in DOMAIN overdue : overdue[j].key = overdue[k].key => j = k
            /\ \A j \in DOMAIN overdue :
                    \E i \in DOMAIN tasks :
                        /\ overdue[j].key = tasks[i].template.key
                        /\ overdue[j].due_date = tasks[i].due_date
                        /\ overdue[j].status = tasks[i].status

\* C13 witness: a report for day 104 on an instance where a Completed task
\* due 102 and a Blocked task due exactly 104 have no entry, and an
\* InProgress task due 98 has one.
C13_Witness ==
    /\ reported # None
    /\ reported[1].today = 104
    /\ LET overdue == reported[1].report.overdue_tasks
           listed(key) == \E j \in DOMAIN overdue : overdue[j].key = key
           a == tasks[IndexOfKey(tasks, "marketing_publish_listing")]
           b == tasks[IndexOfKey(tasks, "screening_process_applications")]
           c == tasks[IndexOfKey(tasks, "leasing_collect_funds")]
       IN  /\ a.status = "Completed" /\ a.due_date = 102 /\ ~listed(a.template.key)
           /\ b.status = "Blocked" /\ b.due_date = 104 /\ ~listed(b.template.key)
           /\ c.status = "InProgress" /\ c.due_date = 98 /\ listed(c.template.key)

\* the alerts of a report that carry the task key and the topic
AlertsAbout(alerts, key, topic) ==
    {a \in DOMAIN alerts : alerts[a].task_key = key /\ alerts[a].topic = topic}

\* C14: every compliance note of every task that is not Completed yields
\* exactly one alert, Critical when the task is due before today and Warning
\* otherwise (tasks not yet due included); a Completed task yields none, and
\* there are no other alerts.
C14_AlertPerOpenNote ==
    reported # None =>
        LET today == reported[1].today
            alerts == reported[1].report.compliance_alerts
        IN  /\ \A i \in DOMAIN tasks :
                    \A n \in DOMAIN tasks[i].template.compliance :
                        LET about == AlertsAbout(alerts, tasks[i].template.key,
                                                 tasks[i].template.compliance[n])
                        IN  IF tasks[i].status = "Completed"
                            THEN about = {}
                            ELSE /\ Cardinality(about) = 1
                                 /\ \A a \in about :
                                        alerts[a].severity =
                                            (IF tasks[i].due_date < today
                                             THEN "Critical" ELSE "Warning")
            /\ \A a \in DOMAIN alerts :
                    \E i \in DOMAIN tasks :
                        /\ tasks[i].template.key = alerts[a].task_key
                        /\ \E n \in DOMAIN tasks[i].template.compliance :
                                tasks[i].template.compliance[n] = alerts[a].topic

\* C14 witness: vacancy start 100, report for day 101: a NotStarted task due
\* 100 has its note at Critical, a task with two notes not yet due has both
\* at Warning, and a Completed task has no alert.
C14_Witness ==
    /\ reported # None
    /\ reported[1].today = 101
    /\ created = Some([vacancy_start |-> 100, target_move_in |-> 114])
    /\ LET alerts == reported[1].report.compliance_alerts
           severities(key) ==
                {alerts[a].severity : a \in {x \in DOMAIN alerts : alerts[x].task_key = key}}
           number(key) == Cardinality({x \in DOMAIN alerts : alerts[x].task_key = key})
           a == tasks[IndexOfKey(tasks, "marketing_publish_listing")]
           b == tasks[IndexOfKey(tasks, "screening_process_applications")]
           c == tasks[IndexOfKey(tasks, "leasing_collect_funds")]
       IN  /\ a.status = "NotStarted" /\ a.due_date = 100
           /\ severities(a.template.key) = {"Critical"} /\ number(a.template.key) = 1
           /\ b.status = "InProgress" /\ b.due_date = 102
           /\ severities(b.template.key) = {"Warning"} /\ number(b.template.key) = 2
           /\ c.status = "Completed" /\ number(c.template.key) = 0

\* the place of a key in the catalog, and of a topic among a task's notes
CatalogIndex(key) ==
    CHOOSE i \in DOMAIN standard_task_templates : standard_task_templates[i].key = key
NoteIndex(key, topic) ==
    CHOOSE n \in DOMAIN standard_task_templates[CatalogIndex(key)].compliance :
        standard_task_templates[CatalogIndex(key)].compliance[n] = topic

\* C15: overdue_tasks is sorted ascending by due date, entries with equal
\* due dates keep catalog order, and the compliance alerts are in catalog
\* order of their tasks and in note order within a task.
C15_ReportOrder ==
    reported # None =>
        LET overdue == reported[1].report.overdue_tasks
            alerts == reported[1].report.compliance_alerts
        IN  /\ \A j, k \in DOMAIN overdue :
                    j < k =>
                        \/ overdue[j].due_date < overdue[k].due_date
                        \/ /\ overdue[j].due_date = overdue[k].due_date
                           /\ CatalogIndex(overdue[j].key) < CatalogIndex(overdue[k].key)
            /\ \A a, b \in DOMAIN alerts :
                    a < b =>
                        \/ CatalogIndex(alerts[a].task_key) < CatalogIndex(alerts[b].task_key)
                        \/ /\ alerts[a].task_key = alerts[b].task_key
                           /\ NoteIndex(alerts[a].task_key, alerts[a].topic)
                                < NoteIndex(alerts[b].task_key, alerts[b].topic)

\* C15 witness: a report whose first overdue entry is the seventh catalog
\* task (due 98), followed by the first two catalog tasks, both due 100 and
\* in catalog order, while the alerts start with the first catalog task.
C15_Witness ==
    /\ reported # None
    /\ LET overdue == reported[1].report.overdue_tasks
           alerts == reported[1].report.compliance_alerts
       IN  /\ Len(overdue) >= 3
           /\ overdue[1].key = "leasing_collect_funds" /\ overdue[1].due_date = 98
           /\ overdue[2].key = "marketing_publish_listing" /\ overdue[2].due_date = 100
           /\ overdue[3].key = "marketing_update_appfolio" /\ overdue[3].due_date = 100
           /\ alerts[1].task_key = "marketing_publish_listing"

\* the due date the claim gives a rule
DueDateAsStated(due, vacancy_start, target_move_in) ==
    IF due.rule = "DaysFromVacancy" THEN vacancy_start + due.days
    ELSE IF due.rule = "DaysBeforeMoveIn" THEN target_move_in - due.days
    ELSE target_move_in

\* C16: every task's due date is vacancyStart + offset for a
\* days-from-vacancy rule, targetMoveIn - N for an N-days-before-move-in
\* rule and targetMoveIn for an on-move-in rule, with no clamping.
C16_DueDatesResolved ==
    created # None =>
        /\ Len(tasks) = Len(standard_task_templates)
        /\ \A i \in DOMAIN tasks :
                tasks[i].due_date =
                    DueDateAsStated(standard_task_templates[i].due,
                                    created[1].vacancy_start, created[1].target_move_in)

\* C16 witness: vacancy start 100 and move-in 103: the task due five days
\* before move-in is due 98, before the vacancy start, and the task due five
\* days from vacancy is due 105, after the move-in.
C16_Witness ==
    /\ created = Some([vacancy_start |-> 100, target_move_in |-> 103])
    /\ tasks[IndexOfKey(tasks, "leasing_collect_funds")].due_date = 98
    /\ tasks[IndexOfKey(tasks, "leasing_prepare_agreement")].due_date = 105
    /\ tasks[IndexOfKey(tasks, "leasing_conduct_move_in_inspection")].due_date = 103

\* C17: a successful set_status(k, ..) changes only the status and
\* completion date of the task with key k; the number, order, templates and
\* due dates of the tasks and the state of every other task are as before,
\* so the instance always holds one task per catalog template, in catalog
\* order, with the due date resolved at creation.
C17_SetStatusFrame ==
    /\ (status_call # None /\ status_result # None /\ status_result[1].ok) =>
            LET before == status_call[1].before
            IN  /\ Len(tasks) = Len(before)
                /\ \A i \in DOMAIN tasks :
                        /\ tasks[i].template = before[i].template
                        /\ tasks[i].due_date = before[i].due_date
                        /\ tasks[i].template.key # status_call[1].task_key =>
                                /\ tasks[i].status = before[i].status
                                /\ tasks[i].completed_on = before[i].completed_on
    /\ created # None =>
            /\ Len(tasks) = Len(standard_task_templates)
            /\ \A i \in DOMAIN tasks :
                    /\ tasks[i].template = standard_task_templates[i]
                    /\ tasks[i].due_date =
                            resolve(standard_task_templates[i].due,
                                    created[1].vacancy_start, created[1].target_move_in)

\* C17 witness: the third call succeeded on one task while two other tasks,
\* one Completed with a date and one Blocked, are as they were before it.
C17_Witness ==
    /\ called = 3
    /\ status_call # None
    /\ status_result # None
    /\ status_result[1].ok
    /\ status_call[1].task_key = "leasing_collect_funds"
    /\ LET a == IndexOfKey(tasks, "marketing_publish_listing")
           b == IndexOfKey(tasks, "screening_process_applications")
           c == IndexOfKey(tasks, "leasing_collect_funds")
       IN  /\ tasks[a].status = "Completed" /\ tasks[a].completed_on = Some(105)
           /\ tasks[a] = status_call[1].before[a]
           /\ tasks[b].status = "Blocked"
           /\ tasks[b] = status_call[1].before[b]
           /\ tasks[c].status = "InProgress"
           /\ status_call[1].before[c].status = "NotStarted"

\* C18: set_status on an existing key succeeds for every pair of current
\* and new status and stores the new status; when the new status is not
\* Completed the task has no completion date afterwards, whatever
\* completedOn was supplied and whatever date the task held before.
C18_AnyTransitionClearsDate ==
    (status_call # None /\ HasKey(status_call[1].before, status_call[1].task_key)) =>
        LET i == IndexOfKey(status_call[1].before, status_call[1].task_key)
        IN  /\ status_result # None
            /\ status_result[1].ok
            /\ tasks[i].status = status_call[1].status
            /\ status_call[1].status # "Completed" => tasks[i].completed_on = None

\* C18 witness: a task that was Completed with a date was set back to
\* NotStarted with a date supplied, and has no completion date now.
C18_Witness ==
    /\ status_call # None
    /\ status_call[1].task_key = "screening_process_applications"
    /\ status_call[1].status = "NotStarted"
    /\ status_call[1].completed_on = Some(105)
    /\ LET i == IndexOfKey(tasks, "screening_process_applications")
       IN  /\ status_call[1].before[i].status = "Completed"
           /\ status_call[1].before[i].completed_on = Some(105)
           /\ status_result # None
           /\ status_result[1].ok
           /\ tasks[i].status = "NotStarted"
           /\ tasks[i].completed_on = None

(***************************************************************************)
(* applications/repository.rs, services/api/src/infra.rs: collaborators    *)
(***************************************************************************)
\* ApplicationServiceError: Compliance(violation), Repository(kind) or
\* Alert(Transport)
ServiceError(source, kind, violation) ==
    [source |-> source, kind |-> kind, violation |-> violation]
ComplianceError(v) == ServiceError("Compliance", v.kind, Some(v))
RepositoryError(kind) == ServiceError("Repository", kind, None)
AlertError == ServiceError("Alert", "Transport", None)

\* ApplicationRecord
Record(p, status, evaluation) ==
    [profile |-> p, status |-> status, evaluation |-> evaluation]

\* InMemoryApplicationRepository::insert on the map `recs`; `available` is
\* the collaborator answering at all (RepositoryError::Unavailable if not)
RepoInsert(recs, record, available) ==
    IF ~available
    THEN [records |-> recs, result |-> Err(RepositoryError("Unavailable"))]
    ELSE IF record.profile.application_id \in DOMAIN recs
    THEN [records |-> recs, result |-> Err(RepositoryError("Conflict"))]
    ELSE [records |->
            [id \in DOMAIN recs \cup {record.profile.application_id} |->
                IF id = record.profile.application_id THEN record ELSE recs[id]],
          result |-> Ok(record)]

\* an update that refuses a record which already carries an evaluation
RepoUpdateOnce(recs, record, available) ==
    IF ~available
    THEN [records |-> recs, result |-> Err(RepositoryError("Unavailable"))]
    ELSE IF record.profile.application_id \notin DOMAIN recs
    THEN [records |-> recs, result |-> Err(RepositoryError("NotFound"))]
    ELSE IF recs[record.profile.application_id].evaluation # None
    THEN [records |-> recs, result |-> Err(RepositoryError("Conflict"))]
    ELSE [records |-> [recs EXCEPT ![record.profile.application_id] = record],
          result |-> Ok("unit")]

\* InMemoryApplicationRepository::update
RepoUpdate(recs, record, available) ==
    IF ~available
    THEN [records |-> recs, result |-> Err(RepositoryError("Unavailable"))]
    ELSE IF record.profile.application_id \in DOMAIN recs
    THEN [records |-> [recs EXCEPT ![record.profile.application_id] = record],
          result |-> Ok("unit")]
    ELSE [records |-> recs, result |-> Err(RepositoryError("NotFound"))]

\* InMemoryApplicationRepository::fetch followed by
\* .ok_or(RepositoryError::NotFound)
RepoFetch(recs, id, available) ==
    IF ~available THEN Err(RepositoryError("Unavailable"))
    ELSE IF id \in DOMAIN recs THEN Ok(recs[id])
    ELSE Err(RepositoryError("NotFound"))

\* AppFolioAlert as handed to AlertPublisher::publish, with the publisher's
\* answer (accepted, or AlertError::Transport)
Alert(template, id, accepted) ==
    [template |-> template, application_id |-> id,
     details |-> <<"decision", "approved">>, accepted |-> accepted]

(***************************************************************************)
(* applications/service.rs: VacancyApplicationService                      *)
(***************************************************************************)
Digits == <<"0", "1", "2", "3", "4", "5", "6", "7", "8", "9">>

\* format!("app-{id:06}") for the ids below 10 this model hands out
ApplicationIdOf(n) == "app-00000" \o Digits[n + 1]

\* the counter is read but not advanced
fetch_add_without_store(seq) == [previous |-> seq, value |-> seq]

\* APPLICATION_SEQUENCE.fetch_add(1, Ordering::Relaxed): one atomic
\* read-modify-write; the value read and the value left in the counter
fetch_add(seq) == [previous |-> seq, value |-> seq + 1]

\* next_application_id: the id made from the value read, and the counter
next_application_id(seq) ==
    [number |-> fetch_add(seq).previous,
     id |-> ApplicationIdOf(fetch_add(seq).previous),
     sequence |-> fetch_add(seq).value]

\* the status evaluate stores for a decision
StatusForManualAsWaitlisted(decision) ==
    CASE decision.kind = "Approved" -> "Approved"
      [] decision.kind = "Denied" -> "Denied"
      [] decision.kind = "ManualReview" -> "Waitlisted"
      [] OTHER -> "UnderReview"

StatusFor(decision) ==
    CASE decision.kind = "Approved" -> "Approved"
      [] decision.kind = "Denied" -> "Denied"
      [] OTHER -> "UnderReview"

ShouldAlertUnlessDenied(decision) == decision.kind # "Denied"

\* matches!(outcome.decision, ApplicationDecision::Approved)
ShouldAlert(decision) == decision.kind = "Approved"

\* the id is taken before the guard runs
submit_numbering_first(seq, recs, pol, s, repo_available) ==
    LET numbered == next_application_id(seq)
        checked == profile_from_submission(pol, s)
    IN  IF ~checked.ok
        THEN [sequence |-> numbered.sequence, records |-> recs,
              result |-> Err(ComplianceError(Unwrap(checked.error)))]
        ELSE LET record == Record([Unwrap(checked.value) EXCEPT
                                        !.application_id = numbered.id],
                                  "Submitted", None)
                 inserted == RepoInsert(recs, record, repo_available)
             IN  [sequence |-> numbered.sequence,
                  records |-> inserted.records,
                  result |-> inserted.result]

\* VacancyApplicationService::submit: the sequence, the repository and the
\* result afterwards
submit(seq, recs, pol, s, repo_available) ==
    LET checked == profile_from_submission(pol, s)
    IN  IF ~checked.ok
        THEN [sequence |-> seq, records |-> recs,
              result |-> Err(ComplianceError(Unwrap(checked.error)))]
        ELSE LET numbered == next_application_id(seq)
                 record == Record([Unwrap(checked.value) EXCEPT
                                        !.application_id = numbered.id],
                                  "Submitted", None)
                 inserted == RepoInsert(recs, record, repo_available)
             IN  [sequence |-> numbered.sequence,
                  records |-> inserted.records,
                  result |-> inserted.result]

\* the record is written only once the alert has gone out
evaluate_alert_first(recs, evts, cfg, id, fetch_ok, update_ok, publish_ok) ==
    LET fetched == RepoFetch(recs, id, fetch_ok)
    IN  IF ~fetched.ok
        THEN [records |-> recs, events |-> evts, result |-> fetched]
        ELSE LET record == Unwrap(fetched.value)
                 scored == score(record.profile, cfg)
                 changed == Record(record.profile, StatusFor(scored.decision), Some(scored))
                 alert == Alert("applicant_approved", scored.application_id, publish_ok)
                 updated == RepoUpdate(recs, changed, update_ok)
             IN  IF ShouldAlert(scored.decision) /\ update_ok /\ ~publish_ok
                 THEN [records |-> recs, events |-> Append(evts, alert),
                       result |-> Err(AlertError)]
                 ELSE IF ~updated.result.ok
                 THEN [records |-> recs, events |-> evts, result |-> updated.result]
                 ELSE IF ShouldAlert(scored.decision)
                 THEN [records |-> updated.records, events |-> Append(evts, alert),
                       result |-> Ok(scored)]
                 ELSE [records |-> updated.records, events |-> evts,
                       result |-> Ok(scored)]

\* VacancyApplicationService::evaluate: the repository, the alerts handed to
\* the publisher and the result afterwards
evaluate(recs, evts, cfg, id, fetch_ok, update_ok, publish_ok) ==
    LET fetched == RepoFetch(recs, id, fetch_ok)
    IN  IF ~fetched.ok
        THEN [records |-> recs, events |-> evts, result |-> fetched]
        ELSE LET record == Unwrap(fetched.value)
                 scored == score(record.profile, cfg)
                 changed == Record(record.profile, StatusFor(scored.decision), Some(scored))
                 updated == RepoUpdate(recs, changed, update_ok)
                 alert == Alert("applicant_approved", scored.application_id, publish_ok)
             IN  IF ~updated.result.ok
                 THEN [records |-> recs, events |-> evts, result |-> updated.result]
                 ELSE IF ShouldAlert(scored.decision)
                 THEN [records |-> updated.records,
                       events |-> Append(evts, alert),
                       result |-> IF publish_ok THEN Ok(scored) ELSE Err(AlertError)]
                 ELSE [records |-> updated.records, events |-> evts,
                       result |-> Ok(scored)]

\* VacancyApplicationService::get
get(recs, id, fetch_ok) == RepoFetch(recs, id, fetch_ok)

(***************************************************************************)
(* applications/router.rs: status_handler, and the views it serialises     *)
(***************************************************************************)
\* VacancyApplicationStatus::label
StatusLabel(status) ==
    CASE status = "Submitted" -> "submitted"
      [] status = "UnderReview" -> "under_review"
      [] status = "Approved" -> "approved"
      [] status = "Denied" -> "denied"
      [] status = "Waitlisted" -> "waitlisted"

\* a rationale: the fixed text, and the values formatted into it
Rationale(text, decision) ==
    [text |-> text, required_ratio |-> decision.required_ratio,
     actual_ratio |-> decision.actual_ratio, count |-> decision.count,
     detail |-> decision.detail]

PendingEvaluation == Rationale("pending evaluation", Approved)

\* ApplicationDecision::summary and DenialReason::summary for the decisions
\* decide_outcome builds (a manual review always carries one reason, a
\* conditional approval one required action)
summary(decision) ==
    CASE decision.kind = "Approved" -> Rationale("application approved", decision)
      [] decision.kind = "ConditionalApproval" ->
            Rationale("conditional approval: {}", decision)
      [] decision.kind = "ManualReview" ->
            Rationale("manual review required: {}", decision)
      [] decision.reason = "InsufficientIncome" ->
            Rationale("denied for insufficient income (required {:.2}, actual {:.2})",
                      decision)
      [] decision.reason = "AdverseCreditHistory" ->
            Rationale("denied for adverse credit history", decision)
      [] decision.reason = "ExcessiveEvictions" ->
            Rationale("denied for {count} eviction(s)", decision)

\* ApplicationRecord::decision_rationale
decision_rationale(record) ==
    IF record.evaluation = None THEN PendingEvaluation
    ELSE summary(record.evaluation[1].decision)

\* ApplicationRecord::status_view
status_view(record) ==
    [application_id |-> record.profile.application_id,
     status |-> StatusLabel(record.status),
     decision_rationale |-> decision_rationale(record),
     total_score |->
        IF record.evaluation = None THEN None
        ELSE Some(record.evaluation[1].total_score)]

\* an HTTP response: the status code and the JSON body
Response(code, body) == [code |-> code, body |-> body]

\* an unknown id is answered as an error
status_handler_rejecting_unknown(recs, id, fetch_ok) ==
    LET got == get(recs, id, fetch_ok)
    IN  IF got.ok THEN Response("OK", status_view(Unwrap(got.value)))
        ELSE Response("INTERNAL_SERVER_ERROR", Unwrap(got.error))

\* status_handler
status_handler(recs, id, fetch_ok) ==
    LET got == get(recs, id, fetch_ok)
    IN  IF got.ok THEN Response("OK", status_view(Unwrap(got.value)))
        ELSE IF Unwrap(got.error) = RepositoryError("NotFound")
        THEN Response("OK",
                      [application_id |-> id,
                       status |-> StatusLabel("Submitted"),
                       decision_rationale |-> PendingEvaluation,
                       total_score |-> None])
        ELSE Response("INTERNAL_SERVER_ERROR", Unwrap(got.error))

(***************************************************************************)
(* SpecService: submit, evaluate and get calls on one service              *)
(***************************************************************************)
MaxSubmits == 2     \* application ids handed out
MaxAlerts == 2      \* alerts handed to the publisher

ServiceIds == {ApplicationIdOf(n) : n \in 1..MaxSubmits} \cup {"missing"}

\* tests/common.rs evaluation_config
ServiceConfigs ==
    {cfg \in Configs : cfg.minimum_credit_score # None /\ cfg.max_evictions = 1}

ViolentRecord ==
    [classification |-> "ViolentFelony", years_since |-> 2, description |-> "Assault"]
Evicted == [filed_eviction |-> TRUE]

\* one submission per way through submit and evaluate: approved, denied,
\* sent to manual review, rejected by the guard
ServiceSubmissions ==
    LET sub(rent, prohibited, rental, criminal) ==
            Submission(Listing(rent, 2 * rent), Household(1, 1), prohibited,
                       Income(4, <<"Employer">>, None), rental,
                       Some(MinimumCredit), criminal)
    IN  {sub(1, <<>>, <<>>, <<>>),
         sub(1, <<>>, <<Evicted, Evicted>>, <<>>),
         sub(1, <<>>, <<>>, <<ViolentRecord>>),
         sub(1, <<"BlanketCriminalHistoryBan">>, <<>>, <<>>)}

\* the last call: its operation and arguments, whether the repository
\* answered its first request, and the repository, alerts and counter before
Call(op, s, id, repo_ok) ==
    [op |-> op, submission |-> s, id |-> id, repo_ok |-> repo_ok,
     before |-> [records |-> records, events |-> events, sequence |-> sequence]]

InitService ==
    /\ config \in ServiceConfigs
    /\ policy = CompliancePolicyNew(config.deposit_cap_multiplier)
    /\ records = <<>>
    /\ events = <<>>
    /\ sequence = 1
    /\ returned = None
    /\ approvals = [id \in ServiceIds |-> 0]
    /\ service_call = None
    /\ response = None
    /\ threads = <<>>
    /\ profile = None /\ outcome = None /\ submission = None /\ guarded = None
    /\ WorkflowIdle

Submit ==
    /\ sequence <= MaxSubmits
    /\ \E s \in ServiceSubmissions, repo_available \in BOOLEAN :
            LET after == submit(sequence, records, policy, s, repo_available)
            IN  /\ sequence' = after.sequence
                /\ records' = after.records
                /\ returned' = Some(after.result)
                /\ service_call' = Some(Call("submit", Some(s), "", repo_available))
    /\ response' = None
    /\ UNCHANGED <<events, approvals, threads, config, policy, profile, outcome,
                   submission, guarded, workflowVars>>

\* an evaluate call that found the record, decided Approved and stored it
ReachedApproved(recs, cfg, id, fetch_ok, update_ok) ==
    /\ fetch_ok
    /\ update_ok
    /\ id \in DOMAIN recs
    /\ score(recs[id].profile, cfg).decision.kind = "Approved"

Evaluate ==
    /\ Len(events) < MaxAlerts
    /\ \E id \in ServiceIds, fetch_ok \in BOOLEAN, update_ok \in BOOLEAN,
          publish_ok \in BOOLEAN :
            \* a collaborator that is never asked is not counted as failing
            /\ ~fetch_ok => update_ok
            /\ ~update_ok => publish_ok
            /\ LET after == evaluate(records, events, config, id, fetch_ok,
                                     update_ok, publish_ok)
               IN  /\ records' = after.records
                   /\ events' = after.events
                   /\ returned' = Some(after.result)
                   /\ approvals' =
                        IF ReachedApproved(records, config, id, fetch_ok, update_ok)
                        THEN [approvals EXCEPT ![id] = @ + 1]
                        ELSE approvals
                   /\ service_call' = Some(Call("evaluate", None, id, fetch_ok))
    /\ response' = None
    /\ UNCHANGED <<sequence, threads, config, policy, profile, outcome, submission,
                   guarded, workflowVars>>

Get ==
    /\ \E id \in ServiceIds, fetch_ok \in BOOLEAN :
            /\ returned' = Some(get(records, id, fetch_ok))
            /\ service_call' = Some(Call("get", None, id, fetch_ok))
    /\ response' = None
    /\ UNCHANGED <<records, events, sequence, approvals, threads, config, policy,
                   profile, outcome, submission, guarded, workflowVars>>

\* GET /api/v1/vacancy/applications/:application_id
StatusLookup ==
    /\ \E id \in ServiceIds, fetch_ok \in BOOLEAN :
            /\ response' = Some(status_handler(records, id, fetch_ok))
            /\ service_call' = Some(Call("status", None, id, fetch_ok))
    /\ returned' = None
    /\ UNCHANGED <<records, events, sequence, approvals, threads, config, policy,
                   profile, outcome, submission, guarded, workflowVars>>

NextService == Submit \/ Evaluate \/ Get \/ StatusLookup

SpecService == InitService /\ [][NextService]_vars

(***************************************************************************)
(* Claims about the application service (checked under SpecService)        *)
(***************************************************************************)
\* C8: every stored record has its status derived from its latest
\* evaluation: no evaluation exactly when Submitted; with one, Approved for
\* an Approved decision, Denied for a Denied one, UnderReview for every
\* other; Waitlisted is never stored.
C8_StatusDerivedFromEvaluation ==
    \A id \in DOMAIN records :
        LET r == records[id]
        IN  /\ (r.evaluation = None) <=> (r.status = "Submitted")
            /\ r.evaluation # None =>
                    LET kind == r.evaluation[1].decision.kind
                    IN  r.status = (IF kind = "Approved" THEN "Approved"
                                    ELSE IF kind = "Denied" THEN "Denied"
                                    ELSE "UnderReview")
            /\ r.status # "Waitlisted"

\* C8 witness: the repository holds a record evaluated to ManualReview and
\* stored UnderReview beside one that was evaluated and denied.
C8_Witness ==
    \E a, b \in DOMAIN records :
        /\ records[a].status = "UnderReview"
        /\ records[a].evaluation # None
        /\ records[a].evaluation[1].decision.kind = "ManualReview"
        /\ records[b].status = "Denied"
        /\ records[b].evaluation # None

CountFor(evts, id) == Cardinality({i \in DOMAIN evts : evts[i].application_id = id})

\* C9: evaluate hands exactly one alert (template applicant_approved, with
\* the evaluated id) to the publisher when it decided Approved and the update
\* succeeded, and none for any other decision or when fetch or update
\* failed: per id, the alerts number the evaluate calls that reached
\* Approved, repeated evaluations included.
C9_OneAlertPerApproval ==
    /\ \A id \in ServiceIds : CountFor(events, id) = approvals[id]
    /\ \A i \in DOMAIN events :
            /\ events[i].template = "applicant_approved"
            /\ events[i].application_id \in DOMAIN records
            /\ records[events[i].application_id].status = "Approved"

\* C9 witness: one id was evaluated to Approved twice and has two alerts,
\* while a second stored id was evaluated to another decision and has none.
C9_Witness ==
    \E a, b \in DOMAIN records :
        /\ approvals[a] = 2
        /\ CountFor(events, a) = 2
        /\ records[b].evaluation # None
        /\ records[b].status # "Approved"
        /\ CountFor(events, b) = 0

\* C10: when evaluate decides Approved and the publisher fails, evaluate
\* returns an Alert error while the record keeps the status Approved and the
\* new evaluation written by repository.update: no rollback.
C10_AlertFailureKeepsApproval ==
    (returned # None /\ ~returned[1].ok /\ returned[1].error[1].source = "Alert") =>
        /\ events # <<>>
        /\ ~events[Len(events)].accepted
        /\ LET id == events[Len(events)].application_id
           IN  /\ id \in DOMAIN records
               /\ records[id].status = "Approved"
               /\ records[id].evaluation # None
               /\ records[id].evaluation[1].decision = Approved
               /\ records[id].evaluation[1].application_id = id

\* C10 witness: the first evaluation of a record failed at the publisher, and
\* the record is stored Approved.
C10_Witness ==
    /\ returned # None
    /\ ~returned[1].ok
    /\ returned[1].error[1].source = "Alert"
    /\ Len(events) = 1
    /\ ~events[1].accepted
    /\ approvals[events[1].application_id] = 1
    /\ records[events[1].application_id].status = "Approved"

\* the repository, the alerts and the counter are as before the last call
ServiceUnchanged ==
    /\ records = service_call[1].before.records
    /\ events = service_call[1].before.events
    /\ sequence = service_call[1].before.sequence

ReturnedError(source, kind) ==
    /\ returned # None
    /\ ~returned[1].ok
    /\ returned[1].error[1].source = source
    /\ returned[1].error[1].kind = kind

\* C19: a submit that fails with a ComplianceViolation, and an evaluate or
\* get with an id that is not stored (failing with Repository NotFound),
\* leave the repository and the alerts unchanged, and the failed guard check
\* consumes no application id.
C19_FailedCallsHaveNoEffect ==
    service_call # None =>
        LET c == service_call[1]
        IN  /\ (/\ c.op = "submit"
                /\ returned # None
                /\ ~returned[1].ok
                /\ returned[1].error[1].source = "Compliance") => ServiceUnchanged
            /\ (c.op \in {"evaluate", "get"} /\ c.repo_ok
                    /\ c.id \notin DOMAIN c.before.records) =>
                        /\ ReturnedError("Repository", "NotFound")
                        /\ ServiceUnchanged
            /\ (c.op \in {"evaluate", "get"} /\ ReturnedError("Repository", "NotFound")) =>
                        ServiceUnchanged

\* C19 witness: with one record stored and one alert published, a submit
\* was rejected by the guard; the counter still stands at 2.
C19_Witness ==
    /\ service_call # None
    /\ service_call[1].op = "submit"
    /\ ReturnedError("Compliance", "ProhibitedPractice")
    /\ sequence = 2
    /\ Len(events) = 1
    /\ Cardinality(DOMAIN records) = 1

\* C20: a status lookup changes nothing; for an id that is not stored it
\* answers OK with that id, status submitted, rationale pending evaluation
\* and no total score; for a stored id it answers OK with the stored
\* status, rationale and total score.
C20_StatusLookup ==
    (service_call # None /\ service_call[1].op = "status") =>
        LET id == service_call[1].id
        IN  /\ ServiceUnchanged
            /\ (service_call[1].repo_ok /\ id \notin DOMAIN records) =>
                    /\ response # None
                    /\ response[1].code = "OK"
                    /\ response[1].body.application_id = id
                    /\ response[1].body.status = "submitted"
                    /\ response[1].body.decision_rationale.text = "pending evaluation"
                    /\ response[1].body.total_score = None
            /\ (service_call[1].repo_ok /\ id \in DOMAIN records) =>
                    /\ response # None
                    /\ response[1].code = "OK"
                    /\ response[1].body.application_id = id
                    /\ response[1].body.status =
                            (CASE records[id].status = "Submitted" -> "submitted"
                               [] records[id].status = "UnderReview" -> "under_review"
                               [] records[id].status = "Approved" -> "approved"
                               [] records[id].status = "Denied" -> "denied"
                               [] OTHER -> "waitlisted")
                    /\ IF records[id].evaluation = None
                       THEN /\ response[1].body.decision_rationale.text =
                                    "pending evaluation"
                            /\ response[1].body.total_score = None
                       ELSE /\ response[1].body.decision_rationale =
                                    summary(records[id].evaluation[1].decision)
                            /\ response[1].body.decision_rationale.text #
                                    "pending evaluation"
                            /\ response[1].body.total_score =
                                    Some(records[id].evaluation[1].total_score)

\* C20 witness: with an evaluated record stored, a lookup of an id that is
\* not stored was answered OK with the synthetic view.
C20_Witness ==
    /\ service_call # None
    /\ service_call[1].op = "status"
    /\ service_call[1].id = "missing"
    /\ service_call[1].repo_ok
    /\ \E id \in DOMAIN records : records[id].evaluation # None
    /\ response # None
    /\ response[1].code = "OK"
    /\ response[1].body.application_id = "missing"
    /\ response[1].body.status = "submitted"

(***************************************************************************)
(* SpecConcurrent: submit calls running at once. Each call runs the guard,  *)
(* takes its id from the shared counter with one atomic fetch_add, and      *)
(* inserts under the repository's lock; the calls interleave between these  *)
(* steps. The calls share one repository, the case in which two equal ids   *)
(* would meet.                                                              *)
(***************************************************************************)
MaxThreads == 3     \* calls of one operation running at once

\* a submit call in flight: its position, its submission and its locals
Thread(pc, s, p, number, id, result) ==
    [pc |-> pc, submission |-> s, profile |-> p, number |-> number, id |-> id,
     result |-> result]

\* a submission the guard accepts and one it rejects
ConcurrentSubmissions ==
    {s \in ServiceSubmissions :
        /\ s.listing.listed_rent = 1
        /\ s.rental_history = <<>>
        /\ s.criminal_history = <<>>}

InitConcurrent ==
    /\ config \in ServiceConfigs
    /\ policy = CompliancePolicyNew(config.deposit_cap_multiplier)
    /\ threads \in [1..MaxThreads ->
                        {Thread("start", s, None, None, None, None) :
                            s \in ConcurrentSubmissions}]
    /\ records = <<>>
    /\ events = <<>>
    /\ sequence = 1
    /\ returned = None
    /\ approvals = <<>>
    /\ service_call = None
    /\ response = None
    /\ profile = None /\ outcome = None /\ submission = None /\ guarded = None
    /\ WorkflowIdle

\* submit, first step: self.guard.profile_from_submission(submission)?
SubmitGuard ==
    /\ \E t \in DOMAIN threads :
            /\ threads[t].pc = "start"
            /\ LET checked == profile_from_submission(policy, threads[t].submission)
               IN  threads' =
                        [threads EXCEPT ![t] =
                            IF checked.ok
                            THEN [@ EXCEPT !.pc = "guarded", !.profile = checked.value]
                            ELSE [@ EXCEPT !.pc = "done",
                                           !.result = Some(Err(ComplianceError(
                                                            Unwrap(checked.error))))]]
    /\ UNCHANGED <<records, events, sequence, returned, approvals, service_call,
                   response, engineVars, guardVars, workflowVars>>

\* submit, second step: next_application_id()
SubmitNextId ==
    /\ \E t \in DOMAIN threads :
            /\ threads[t].pc = "guarded"
            /\ LET numbered == next_application_id(sequence)
               IN  /\ sequence' = numbered.sequence
                   /\ threads' = [threads EXCEPT ![t] =
                                    [@ EXCEPT !.pc = "numbered",
                                              !.number = Some(numbered.number),
                                              !.id = Some(numbered.id)]]
    /\ UNCHANGED <<records, events, returned, approvals, service_call, response,
                   engineVars, guardVars, workflowVars>>

\* submit, third step: self.repository.insert(record)?
SubmitInsert ==
    /\ \E t \in DOMAIN threads, repo_available \in BOOLEAN :
            /\ threads[t].pc = "numbered"
            /\ LET record == Record([Unwrap(threads[t].profile) EXCEPT
                                        !.application_id = Unwrap(threads[t].id)],
                                    "Submitted", None)
                   inserted == RepoInsert(records, record, repo_available)
               IN  /\ records' = inserted.records
                   /\ threads' = [threads EXCEPT ![t] =
                                    [@ EXCEPT !.pc = "done",
                                              !.result = Some(inserted.result)]]
    /\ UNCHANGED <<events, sequence, returned, approvals, service_call, response,
                   engineVars, guardVars, workflowVars>>

NextConcurrent == SubmitGuard \/ SubmitNextId \/ SubmitInsert

SpecConcurrent == InitConcurrent /\ [][NextConcurrent]_vars

\* C11: under any interleaving of concurrent submit calls, each submission
\* that passes the guard receives an id distinct from every other id handed
\* out, taken from a strictly increasing counter (the numbers handed out are
\* exactly those below the counter), and insert never answers Conflict.
C11_ConcurrentIdsDistinct ==
    /\ \A t, u \in DOMAIN threads :
            (t # u /\ threads[t].id # None /\ threads[u].id # None) =>
                /\ threads[t].id # threads[u].id
                /\ threads[t].number # threads[u].number
    /\ {threads[t].number[1] : t \in {u \in DOMAIN threads : threads[u].number # None}}
            = 1..(sequence - 1)
    /\ \A t \in DOMAIN threads :
            /\ (threads[t].pc \in {"numbered", "done"} /\ threads[t].profile # None) =>
                    threads[t].id # None
            /\ (threads[t].result # None /\ ~threads[t].result[1].ok) =>
                    threads[t].result[1].error[1] # RepositoryError("Conflict")
    /\ \A id \in DOMAIN records :
            \E t \in DOMAIN threads : threads[t].id = Some(id)

\* C11 witness: three calls passed the guard and were all inserted, and the
\* first call took the last number: the calls did not run in turn.
C11_Witness ==
    /\ Len(threads) = MaxThreads
    /\ \A t \in DOMAIN threads :
            /\ threads[t].pc = "done"
            /\ threads[t].result # None
            /\ threads[t].result[1].ok
    /\ threads[1].number = Some(MaxThreads)
    /\ Cardinality(DOMAIN records) = MaxThreads

InsightStarts == {100}
\* move-in before, on and after the vacancy start; windows of 5 and 10 days
InsightTargets == {98, 100, 105, 110}
InsightDays == {99, 100, 103, 106, 107, 110, 112}

RECURSIVE CompleteAll(_, _, _)
\* set_status(key, Completed, Some(on)) for each of the tasks numbered in done
CompleteAll(ts, done, on) ==
    IF done = {} THEN ts
    ELSE LET i == CHOOSE i \in done : \A j \in done : i <= j
         IN  CompleteAll(set_status(ts, ts[i].template.key, "Completed", Some(on)).tasks,
                         done \ {i}, on)

InitInsights ==
    /\ \E vacancy_start \in InsightStarts, target_move_in \in InsightTargets,
          done \in SUBSET (DOMAIN standard_task_templates) :
            /\ tasks = CompleteAll(WorkflowNew(standard_task_templates, vacancy_start,
                                               target_move_in),
                                   done, vacancy_start)
            /\ created = Some([vacancy_start |-> vacancy_start,
                               target_move_in |-> target_move_in])
    /\ called = 0
    /\ status_result = None
    /\ status_call = None
    /\ reported = None
    /\ insights = None
    /\ importer = None
    /\ EngineIdle /\ GuardIdle /\ ServiceIdle

\* vacancy_report_endpoint: report(today), summary(), insights(..)
VacancyReportEndpoint ==
    /\ insights = None
    /\ \E today \in InsightDays :
            LET rep == report(tasks, today)
                smry == report_summary(rep)
            IN  /\ reported' = Some([today |-> today, report |-> rep,
                                      repeated |-> FALSE])
                /\ insights' =
                        Some([today |-> today,
                              insights |->
                                generate_insights(smry, tasks, created[1].vacancy_start,
                                                  created[1].target_move_in, today)])
    /\ UNCHANGED <<tasks, called, status_result, created, status_call, importer,
                   engineVars, guardVars, serviceVars>>

NextInsights == VacancyReportEndpoint

SpecInsights == InitInsights /\ [][NextInsights]_vars

\* the number of tasks of a stage that are not Completed
Outstanding(stage) ==
    Cardinality({i \in DOMAIN tasks : /\ tasks[i].template.stage = stage
                                      /\ tasks[i].status # "Completed"})

\* the greatest number of outstanding tasks any stage has
MostOutstanding ==
    CHOOSE n \in 0..Len(tasks) :
        /\ \E k \in DOMAIN StagesOrdered : Outstanding(StagesOrdered[k]) = n
        /\ \A k \in DOMAIN StagesOrdered : Outstanding(StagesOrdered[k]) <= n

\* C21 as stated: the focus stage is the stage with the most outstanding
\* tasks, the first such stage in catalog order on a tie, and there is none
\* when every task is Completed.
C21_AsStated ==
    insights # None =>
        LET focus == insights[1].insights.focus_stage
        IN  IF MostOutstanding = 0 THEN focus = None
            ELSE \E k \in DOMAIN StagesOrdered :
                    /\ focus = Some(StageLabel(StagesOrdered[k]))
                    /\ Outstanding(StagesOrdered[k]) = MostOutstanding
                    /\ \A j \in DOMAIN StagesOrdered :
                            j < k => Outstanding(StagesOrdered[j]) < MostOutstanding

\* C21 amended: the focus stage is the stage with the most outstanding
\* tasks, the last such stage in catalog order on a tie, and there is none
\* when every task is Completed.
C21_FocusStage ==
    insights # None =>
        LET focus == insights[1].insights.focus_stage
        IN  IF MostOutstanding = 0 THEN focus = None
            ELSE \E k \in DOMAIN StagesOrdered :
                    /\ focus = Some(StageLabel(StagesOrdered[k]))
                    /\ Outstanding(StagesOrdered[k]) = MostOutstanding
                    /\ \A j \in DOMAIN StagesOrdered :
                            j > k => Outstanding(StagesOrdered[j]) < MostOutstanding

\* Screening and lease signing tie with three outstanding tasks each, and
\* the later of the two is the focus.
C21_Witness ==
    /\ insights # None
    /\ Outstanding("ScreeningAndApplication") = 3
    /\ Outstanding("LeaseSigningAndMoveIn") = 3
    /\ MostOutstanding = 3
    /\ insights[1].insights.focus_stage = Some("Lease Signing & Move-In")

\* the readiness score as stated: 100 * completed / total rounded to the
\* nearest integer, halves up
ScoreAsStated ==
    LET total == Len(tasks)
        completed == Cardinality({i \in DOMAIN tasks : tasks[i].status = "Completed"})
    IN  IF total = 0 THEN 0 ELSE (200 * completed + total) \div (2 * total)

\* the score lags the expected completion percentage by more than 10 points
LagsExpected(readiness, days_since_vacancy, vacancy_window) ==
    IF vacancy_window <= 0 \/ days_since_vacancy >= vacancy_window
    THEN readiness + 10 < 100
    ELSE IF days_since_vacancy <= 0 THEN FALSE
    ELSE (readiness + 10) * vacancy_window < 100 * days_since_vacancy

\* C22 as stated: the score is round(100 * completed / total) and the level
\* is the first match of: OnTrack (score >= 80, nothing overdue); Monitor
\* (score >= 60, at most one overdue, move-in more than 3 days away); AtRisk
\* (move-in reached with open tasks, or the score lags the expected
\* completion percentage by more than 10 points); otherwise Monitor.
C22_AsStated ==
    insights # None =>
        LET today == insights[1].today
            readiness == ScoreAsStated
            overdue == Cardinality({i \in DOMAIN tasks : /\ tasks[i].status # "Completed"
                                                        /\ tasks[i].due_date < today})
            open == Cardinality({i \in DOMAIN tasks : tasks[i].status # "Completed"})
            days_until == created[1].target_move_in - today
            days_since == today - created[1].vacancy_start
            window == created[1].target_move_in - created[1].vacancy_start
        IN  /\ insights[1].insights.readiness_score = readiness
            /\ insights[1].insights.readiness_level =
                    IF readiness >= 80 /\ overdue = 0 THEN "OnTrack"
                    ELSE IF readiness >= 60 /\ overdue <= 1 /\ days_until > 3 THEN "Monitor"
                    ELSE IF (days_until <= 0 /\ open > 0)
                            \/ LagsExpected(readiness, days_since, window)
                    THEN "AtRisk"
                    ELSE "Monitor"

(***************************************************************************)
(* SpecEvaluators: evaluate calls on one stored application, running at    *)
(* once; fetch and update each hold the repository lock, the call as a     *)
(* whole does not                                                          *)
(***************************************************************************)
\* an evaluate call in flight: its position, the record as fetched, the
\* record it is about to store, its outcome and its result
Evaluator(pc, id, fetched, record, scored, result) ==
    [pc |-> pc, id |-> id, fetched |-> fetched, record |-> record, scored |-> scored,
     result |-> result]

\* the submissions the guard lets through
StoredSubmissions ==
    {s \in ServiceSubmissions : profile_from_submission(
                                    CompliancePolicyNew(DefaultDepositCapMultiplier),
                                    s).ok}

InitEvaluators ==
    /\ config \in ServiceConfigs
    /\ policy = CompliancePolicyNew(config.deposit_cap_multiplier)
    /\ \E s \in StoredSubmissions :
            LET stored == submit(1, <<>>, policy, s, TRUE)
            IN  /\ records = stored.records
                /\ sequence = stored.sequence
                /\ returned = Some(stored.result)
                /\ threads = [t \in 1..MaxThreads |->
                                Evaluator("start",
                                          Unwrap(stored.result.value).profile.application_id,
                                          None, None, None, None)]
    /\ events = <<>>
    /\ approvals = <<>>
    /\ service_call = None
    /\ response = None
    /\ profile = None /\ outcome = None /\ submission = None /\ guarded = None
    /\ WorkflowIdle

\* evaluate, first step: repository.fetch(id)?.ok_or(NotFound)?, then the
\* work on the call's own copy: engine.score, record.status, record.evaluation
EvaluateFetch ==
    /\ \E t \in DOMAIN threads, fetch_ok \in BOOLEAN :
            /\ threads[t].pc = "start"
            /\ LET fetched == RepoFetch(records, threads[t].id, fetch_ok)
               IN  threads' =
                    [threads EXCEPT ![t] =
                        IF ~fetched.ok
                        THEN [@ EXCEPT !.pc = "done", !.result = Some(fetched)]
                        ELSE LET record == Unwrap(fetched.value)
                                 scored == score(record.profile, config)
                             IN  [@ EXCEPT !.pc = "scored",
                                           !.fetched = Some(record),
                                           !.scored = Some(scored),
                                           !.record =
                                                Some(Record(record.profile,
                                                            StatusFor(scored.decision),
                                                            Some(scored)))]]
    /\ UNCHANGED <<records, events, sequence, returned, approvals, service_call,
                   response, engineVars, guardVars, workflowVars>>

\* evaluate, second step: repository.update(record)?
EvaluateUpdate ==
    /\ \E t \in DOMAIN threads, update_ok \in BOOLEAN :
            /\ threads[t].pc = "scored"
            /\ LET updated == RepoUpdate(records, Unwrap(threads[t].record), update_ok)
               IN  /\ records' = updated.records
                   /\ threads' =
                        [threads EXCEPT ![t] =
                            IF updated.result.ok
                            THEN [@ EXCEPT !.pc = "updated"]
                            ELSE [@ EXCEPT !.pc = "done",
                                           !.result = Some(updated.result)]]
    /\ UNCHANGED <<events, sequence, returned, approvals, service_call, response,
                   engineVars, guardVars, workflowVars>>

\* evaluate, last step: the alert of an approval, then Ok(outcome)
EvaluateReturn ==
    /\ \E t \in DOMAIN threads, publish_ok \in BOOLEAN :
            /\ threads[t].pc = "updated"
            /\ LET scored == Unwrap(threads[t].scored)
               IN  IF ShouldAlert(scored.decision)
                   THEN /\ events' = Append(events,
                                            Alert("applicant_approved",
                                                  scored.application_id, publish_ok))
                        /\ threads' =
                            [threads EXCEPT ![t] =
                                [@ EXCEPT !.pc = "done",
                                          !.result = Some(IF publish_ok THEN Ok(scored)
                                                          ELSE Err(AlertError))]]
                   ELSE /\ publish_ok
                        /\ events' = events
                        /\ threads' =
                            [threads EXCEPT ![t] =
                                [@ EXCEPT !.pc = "done", !.result = Some(Ok(scored))]]
    /\ UNCHANGED <<records, sequence, returned, approvals, service_call, response,
                   engineVars, guardVars, workflowVars>>

NextEvaluators == EvaluateFetch \/ EvaluateUpdate \/ EvaluateReturn

SpecEvaluators == InitEvaluators /\ [][NextEvaluators]_vars

\* the record submit stored, and what one evaluate call on it alone does
SubmittedRecord == Unwrap(returned[1].value)
AloneEvaluated ==
    LET id == SubmittedRecord.profile.application_id
    IN  evaluate([i \in {id} |-> SubmittedRecord], <<>>, config, id, TRUE, TRUE, TRUE)

\* C26: however the evaluate calls on one stored id interleave, every call
\* that returns an outcome returns the one a single call returns (the others
\* fail only on a collaborator that did not answer), the stored record is
\* the submitted one until the first update and from then on exactly the
\* record a single call stores, and the stored profile never changes.
C26_ConcurrentEvaluate ==
    LET id == SubmittedRecord.profile.application_id
        alone == AloneEvaluated
        written == \E t \in DOMAIN threads :
                        \/ threads[t].pc = "updated"
                        \/ /\ threads[t].pc = "done"
                           /\ \/ threads[t].result[1].ok
                              \/ threads[t].result[1].error[1] = AlertError
    IN  /\ DOMAIN records = {id}
        /\ records[id].profile = SubmittedRecord.profile
        /\ records[id] = IF written THEN alone.records[id] ELSE SubmittedRecord
        /\ \A t \in DOMAIN threads :
                threads[t].pc = "done" =>
                    IF threads[t].result[1].ok
                    THEN threads[t].result[1] = alone.result
                    ELSE threads[t].result[1].error[1]
                            \in {RepositoryError("Unavailable"), AlertError}

\* every call has returned the outcome; two of them fetched the record as
\* submitted, before either had stored anything, and one fetched it evaluated
C26_Witness ==
    /\ threads # <<>>
    /\ \A t \in DOMAIN threads :
            /\ threads[t].pc = "done"
            /\ threads[t].fetched # None
            /\ threads[t].result[1].ok
    /\ \E t, u \in DOMAIN threads :
            /\ t # u
            /\ threads[t].fetched[1].status = "Submitted"
            /\ threads[u].fetched[1].status = "Submitted"
    /\ \E t \in DOMAIN threads : threads[t].fetched[1].status # "Submitted"

(***************************************************************************)
(* SpecStored: one submission taken through submit and then evaluate       *)
(***************************************************************************)
StoredId == ApplicationIdOf(1)

\* a violent felony older than the lookback window
OldViolentRecord ==
    [classification |-> "ViolentFelony", years_since |-> LookbackYears + 1,
     description |-> "Robbery"]

InitStored ==
    /\ \E rent \in {1, 3},
          deposit \in {2, 6, 7},
          adults \in {0, 1},
          gross \in {0, 4, 12},
          voucher \in {None, Some(1)},
          rental \in SeqsUpTo(RentalReferences, MaxHistory) \cup {EvictionsPastU8},
          credit \in {None, Some(MinimumCredit - 1), Some(MinimumCredit)},
          criminal \in {<<>>, <<ViolentRecord>>, <<OldViolentRecord>>} :
            submission = Some(Submission(Listing(rent, deposit), Household(adults, 0),
                                         <<>>, Income(gross, <<"Employer">>, voucher),
                                         rental, credit, criminal))
    /\ config \in Configs
    /\ policy = CompliancePolicyNew(config.deposit_cap_multiplier)
    /\ records = <<>>
    /\ events = <<>>
    /\ sequence = 1
    /\ returned = None
    /\ approvals = <<>>
    /\ service_call = None
    /\ response = None
    /\ threads = <<>>
    /\ profile = None /\ outcome = None /\ guarded = None
    /\ WorkflowIdle

SubmitDrawn ==
    /\ service_call = None
    /\ \E repo_available \in BOOLEAN :
            LET s == Unwrap(submission)
                after == submit(sequence, records, policy, s, repo_available)
            IN  /\ sequence' = after.sequence
                /\ records' = after.records
                /\ returned' = Some(after.result)
                /\ service_call' = Some(Call("submit", Some(s), "", repo_available))
    /\ UNCHANGED <<events, approvals, response, threads, config, policy, profile,
                   outcome, submission, guarded, workflowVars>>

EvaluateStored ==
    /\ service_call # None
    /\ Len(events) < MaxAlerts
    /\ \E fetch_ok \in BOOLEAN, update_ok \in BOOLEAN, publish_ok \in BOOLEAN :
            /\ ~fetch_ok => update_ok
            /\ ~update_ok => publish_ok
            /\ LET after == evaluate(records, events, config, StoredId, fetch_ok,
                                     update_ok, publish_ok)
               IN  /\ records' = after.records
                   /\ events' = after.events
                   /\ returned' = Some(after.result)
                   /\ service_call' = Some(Call("evaluate", None, StoredId, fetch_ok))
    /\ UNCHANGED <<sequence, approvals, response, threads, config, policy, profile,
                   outcome, submission, guarded, workflowVars>>

NextStored == SubmitDrawn \/ EvaluateStored

SpecStored == InitStored /\ [][NextStored]_vars

(***************************************************************************)
(* Claims about stored applications (checked under SpecStored)             *)
(***************************************************************************)
HasDepositComponent(o) ==
    \E i \in DOMAIN o.components :
        /\ o.components[i].factor = "IowaSecurityDepositCompliance"
        /\ o.components[i].score = 5

\* what the claim says of one outcome of evaluate
StoredOutcomeOk(o) ==
    /\ o.decision.kind # "ConditionalApproval"
    /\ HasDepositComponent(o)
    /\ o.decision.kind = "Approved" => o.total_score >= 25

\* C29: for an application stored through submit, the stored profile keeps
\* the deposit-compliance factor true, and every outcome evaluate returns or
\* stores is not a ConditionalApproval, carries the +5 deposit component and,
\* when Approved, totals at least 25; a stored status of UnderReview comes
\* only with a ManualReview decision.
C29_StoredNeverConditional ==
    /\ \A id \in DOMAIN records :
            /\ records[id].profile.lawful_factors["IowaSecurityDepositCompliance"]
                    = Boolean(TRUE)
            /\ records[id].evaluation # None =>
                    StoredOutcomeOk(records[id].evaluation[1])
            /\ records[id].status = "UnderReview" =>
                    /\ records[id].evaluation # None
                    /\ records[id].evaluation[1].decision.kind = "ManualReview"
    /\ (/\ service_call # None
        /\ service_call[1].op = "evaluate"
        /\ returned[1].ok) => StoredOutcomeOk(Unwrap(returned[1].value))

\* C29 witness: a submission whose deposit is exactly at the cap, with one
\* filed eviction under a configuration that allows one and sets no minimum
\* credit score, was stored, evaluated and approved with a total of 25.
C29_Witness ==
    /\ service_call # None
    /\ service_call[1].op = "evaluate"
    /\ returned[1].ok
    /\ Unwrap(returned[1].value).decision = Approved
    /\ Unwrap(returned[1].value).total_score = 25
    /\ HasDepositComponent(Unwrap(returned[1].value))
    /\ Unwrap(submission).listing.deposit_required
            = 2 * Unwrap(submission).listing.listed_rent
    /\ records[StoredId].status = "Approved"

(***************************************************************************)
(* apollo/normalizer.rs: normalize_name                                    *)
(***************************************************************************)
\* A name is a sequence of pieces of text: words, white space, and the two
\* zero-width characters that normalize_name removes.
ZeroWidth == {"U+FEFF", "U+200B"}
WhiteSpace == {" ", "\t"}

\* to_ascii_lowercase on one piece, for the words that occur in the names
ToAsciiLowercase(piece) ==
    CASE piece = "Sign" -> "sign"
      [] piece \in {"Prepare", "PREPARE"} -> "prepare"
      [] piece = "Lease" -> "lease"
      [] piece = "Agreement" -> "agreement"
      [] piece = "Collect" -> "collect"
      [] piece \in {"Funds", "FUNDS"} -> "funds"
      [] piece = "Create" -> "create"
      [] piece = "Publish" -> "publish"
      [] piece = "Listing" -> "listing"
      [] piece = "Unknown" -> "unknown"
      [] piece = "Task" -> "task"
      [] OTHER -> piece

RECURSIVE RemoveZeroWidth(_)
\* value.replace(['\u{feff}', '\u{200b}'], "")
RemoveZeroWidth(value) ==
    IF value = <<>> THEN <<>>
    ELSE IF Head(value) \in ZeroWidth THEN RemoveZeroWidth(Tail(value))
    ELSE <<Head(value)>> \o RemoveZeroWidth(Tail(value))

RECURSIVE SplitWhitespace(_, _)
\* split_whitespace: the runs of text between white space, word being the
\* run read so far
SplitWhitespace(value, word) ==
    IF value = <<>> THEN (IF word = "" THEN <<>> ELSE <<word>>)
    ELSE IF Head(value) \in WhiteSpace
    THEN (IF word = "" THEN <<>> ELSE <<word>>) \o SplitWhitespace(Tail(value), "")
    ELSE SplitWhitespace(Tail(value), word \o Head(value))

RECURSIVE JoinWithSpace(_)
\* join(" ")
JoinWithSpace(words) ==
    IF words = <<>> THEN ""
    ELSE IF Len(words) = 1 THEN words[1]
    ELSE words[1] \o " " \o JoinWithSpace(Tail(words))

\* normalize_name: to_ascii_lowercase works character by character, so it
\* is applied to the pieces before they are joined
normalize_name(value) ==
    LET cleaned == RemoveZeroWidth(value)
        lowered == [i \in DOMAIN cleaned |-> ToAsciiLowercase(cleaned[i])]
    IN  JoinWithSpace(SplitWhitespace(lowered, ""))

(***************************************************************************)
(* apollo/mapping.rs: task_key_for_normalized                              *)
(***************************************************************************)
\* NAME_TO_TASK: the entries for three task keys, two of them names of the
\* same key (the other entries map other names in the same way)
NAME_TO_TASK ==
    <<<< <<"Create", " ", "and", " ", "Publish", " ", "Listing">>,
         "marketing_publish_listing" >>,
      << <<"Prepare", " ", "Lease", " ", "Agreement">>,
         "leasing_prepare_agreement" >>,
      << <<"Sign", " ", "new", " ", "leases">>,
         "leasing_prepare_agreement" >>,
      << <<"Collect", " ", "Funds">>,
         "leasing_collect_funds" >>>>

\* apollo_name_map(): the normalized names of the entries, built once
apollo_name_map ==
    [i \in DOMAIN NAME_TO_TASK |-> normalize_name(NAME_TO_TASK[i][1])]

\* apollo_name_map().get(normalized_name).copied(); of entries with one
\* normalized name the map holds the last inserted
task_key_for_normalized(normalized_name) ==
    LET hits == {i \in DOMAIN NAME_TO_TASK : apollo_name_map[i] = normalized_name}
    IN  IF hits = {} THEN None
        ELSE Some(NAME_TO_TASK[CHOOSE i \in hits : \A j \in hits : j <= i][2])

(***************************************************************************)
(* apollo/parser.rs: ApolloRow, parse_records                              *)
(***************************************************************************)
\* the text of a date cell: empty, blank, an RFC 3339 instant (in UTC), a
\* %Y-%m-%d date, or something else
Cell(kind, day, hour) == [kind |-> kind, day |-> day, hour |-> hour]
EmptyCell == Cell("empty", 0, 0)
BlankCell == Cell("blank", 0, 0)
Rfc3339(day, hour) == Cell("rfc3339", day, hour)
DateOnly(day) == Cell("date", day, 0)
NotADate == Cell("text", 0, 0)

ApolloRow(name, completed_at, created_at, last_modified) ==
    [name |-> name, completed_at |-> completed_at, created_at |-> created_at,
     last_modified |-> last_modified]

\* empty_string_as_none
empty_string_as_none(cell) ==
    IF cell.kind \in {"empty", "blank"} THEN None ELSE Some(cell)

\* parse_datetime: Option<NaiveDateTime>
parse_datetime(cell) ==
    CASE cell.kind = "rfc3339" -> Some([date |-> cell.day, hour |-> cell.hour])
      [] cell.kind = "date" -> Some([date |-> cell.day, hour |-> 0])
      [] OTHER -> None

\* as_deref().and_then(parse_datetime) on a deserialized cell
ParsedCell(cell) ==
    LET text == empty_string_as_none(cell)
    IN  IF text = None THEN None ELSE parse_datetime(text[1])

\* ApolloRow::completed_date
completed_date(row) ==
    LET parsed == ParsedCell(row.completed_at)
    IN  IF parsed = None THEN None ELSE Some(parsed[1].date)

\* ApolloRow::touched
touched(row) ==
    LET created_at == ParsedCell(row.created_at)
        modified == ParsedCell(row.last_modified)
    IN  /\ created_at # None
        /\ modified # None
        /\ \/ modified[1].date > created_at[1].date
           \/ /\ modified[1].date = created_at[1].date
              /\ modified[1].hour > created_at[1].hour

\* parse_records: one ApolloRecord per row, in the order of the rows
parse_records(rows) ==
    [i \in DOMAIN rows |->
        [normalized_name |-> normalize_name(rows[i].name),
         completed_on |-> completed_date(rows[i]),
         touched |-> touched(rows[i])]]

(***************************************************************************)
(* apollo/mod.rs: ApolloVacancyImporter::from_reader, apply_record         *)
(***************************************************************************)
\* every mapped row marks its key as applied, whether it set a status or not
apply_record_always_applied(task_key, record, ts, applied) ==
    IF record.completed_on # None
    THEN LET after == set_status(ts, task_key, "Completed", record.completed_on)
         IN  [tasks |-> after.tasks, result |-> after.result,
              applied |-> IF after.result.ok THEN applied \cup {task_key} ELSE applied]
    ELSE IF record.touched
    THEN LET after == set_status(ts, task_key, "InProgress", None)
         IN  [tasks |-> after.tasks, result |-> after.result,
              applied |-> IF after.result.ok THEN applied \cup {task_key} ELSE applied]
    ELSE [tasks |-> ts, result |-> Ok("unit"), applied |-> applied \cup {task_key}]

\* apply_record: the tasks, the applied keys and the result afterwards
apply_record(task_key, record, ts, applied) ==
    IF record.completed_on # None
    THEN LET after == set_status(ts, task_key, "Completed", record.completed_on)
         IN  [tasks |-> after.tasks, result |-> after.result,
              applied |-> IF after.result.ok THEN applied \cup {task_key} ELSE applied]
    ELSE IF record.touched
    THEN LET after == set_status(ts, task_key, "InProgress", None)
         IN  [tasks |-> after.tasks, result |-> after.result,
              applied |-> IF after.result.ok THEN applied \cup {task_key} ELSE applied]
    ELSE [tasks |-> ts, result |-> Ok("unit"), applied |-> applied]

(***************************************************************************)
(* SpecImport: from_reader reading the rows of one export                  *)
(***************************************************************************)
MaxRows == 3        \* rows of the export

\* names of rows: two names of one task key, one of them with a byte order
\* mark, upper case and runs of white space; a name of another key; a name
\* the map does not hold
ImportNames ==
    {<<"Sign", " ", "new", " ", "leases">>,
     <<"U+FEFF", "PREPARE", " ", " ", "Lease", "\t", "Agreement", " ">>,
     <<"Collect", " ", "FUNDS">>,
     <<"Unknown", " ", "Task">>}

\* (Completed At, Created At, Last Modified): completed and modified;
\* completed on another day, with a date and nothing else; an unreadable
\* completion and a modification after creation; created and never modified
ImportCells ==
    {<<Rfc3339(105, 12), Rfc3339(100, 10), Rfc3339(105, 12)>>,
     <<DateOnly(107), EmptyCell, BlankCell>>,
     <<NotADate, Rfc3339(100, 10), Rfc3339(100, 12)>>,
     <<EmptyCell, Rfc3339(100, 10), Rfc3339(100, 10)>>}

ImportRows ==
    {ApolloRow(name, cells[1], cells[2], cells[3]) :
        name \in ImportNames, cells \in ImportCells}

ImportStart == 100
ImportMoveIn == 114

InitImport ==
    /\ \E rows \in SeqsUpTo(ImportRows, MaxRows) :
            importer = Some([rows |-> rows, records |-> parse_records(rows),
                             position |-> 1, applied |-> {}, result |-> None])
    /\ tasks = WorkflowNew(standard_task_templates, ImportStart, ImportMoveIn)
    /\ created = Some([vacancy_start |-> ImportStart, target_move_in |-> ImportMoveIn])
    /\ called = 0
    /\ status_result = None
    /\ status_call = None
    /\ reported = None
    /\ insights = None
    /\ EngineIdle /\ GuardIdle /\ ServiceIdle

\* one turn of the loop over the parsed records
ImportRecord ==
    /\ importer # None
    /\ importer[1].result = None
    /\ importer[1].position <= Len(importer[1].records)
    /\ LET imp == importer[1]
           record == imp.records[imp.position]
           task_key == task_key_for_normalized(record.normalized_name)
       IN  IF task_key = None \/ task_key[1] \in imp.applied
           THEN /\ importer' = Some([imp EXCEPT !.position = @ + 1])
                /\ UNCHANGED tasks
           ELSE LET after == apply_record(task_key[1], record, tasks, imp.applied)
                IN  /\ tasks' = after.tasks
                    /\ importer' =
                        Some([imp EXCEPT !.position = @ + 1,
                                         !.applied = after.applied,
                                         !.result = IF after.result.ok THEN None
                                                    ELSE Some(after.result)])
    /\ UNCHANGED <<called, status_result, created, status_call, reported, insights,
                   engineVars, guardVars, serviceVars>>

\* Ok(instance) once every record has been read
ImportReturn ==
    /\ importer # None
    /\ importer[1].result = None
    /\ importer[1].position > Len(importer[1].records)
    /\ importer' = Some([importer[1] EXCEPT !.result = Some(Ok("instance"))])
    /\ UNCHANGED <<tasks, called, status_result, created, status_call, reported,
                   insights, engineVars, guardVars, serviceVars>>

NextImport == ImportRecord \/ ImportReturn

SpecImport == InitImport /\ [][NextImport]_vars

(***************************************************************************)
(* Claims about the Apollo import (checked under SpecImport)               *)
(***************************************************************************)
\* the record sets a status: it has a completion date, or was modified
\* after it was created
SetsStatus(record) == record.completed_on # None \/ record.touched

\* the first of the records read so far that maps to the key and sets a
\* status, 0 when there is none
FirstSetting(imp, keys, key) ==
    LET setting == {i \in 1..(imp.position - 1) :
                        keys[i] = Some(key) /\ SetsStatus(imp.records[i])}
    IN  IF setting = {} THEN 0
        ELSE CHOOSE i \in setting : \A j \in setting : i <= j

\* C30: at every point of an import, each task has the status and the
\* completion date of the first row read so far that maps to its key and sets
\* a status (Completed with the row's completion date when it has one, else
\* InProgress without a date), whatever later rows for that key say, and is
\* NotStarted when no such row was read; so rows that set nothing block no
\* later row, rows with unknown names change no task, every task is
\* NotStarted, InProgress or Completed, and exactly the Completed tasks have
\* a completion date. The import of these rows returns Ok.
C30_FirstSettingRowWins ==
    importer # None =>
        LET imp == importer[1]
            keys == [i \in DOMAIN imp.records |->
                        task_key_for_normalized(imp.records[i].normalized_name)]
        IN  /\ Len(tasks) = Len(standard_task_templates)
            /\ \A t \in DOMAIN tasks :
                    LET first == FirstSetting(imp, keys, tasks[t].template.key)
                    IN  /\ tasks[t].status \in {"NotStarted", "InProgress", "Completed"}
                        /\ tasks[t].completed_on # None <=> tasks[t].status = "Completed"
                        /\ IF first = 0
                           THEN tasks[t].status = "NotStarted"
                           ELSE IF imp.records[first].completed_on # None
                           THEN /\ tasks[t].status = "Completed"
                                /\ tasks[t].completed_on = imp.records[first].completed_on
                           ELSE tasks[t].status = "InProgress"
            /\ imp.result # None => imp.result[1].ok

\* C30 witness: an import has returned after three rows of one task key,
\* under two names: the first set nothing, the second was modified after
\* creation, the third has a completion date; the task is InProgress without
\* a completion date.
C30_Witness ==
    /\ importer # None
    /\ importer[1].result # None
    /\ Len(importer[1].records) = 3
    /\ \A i \in 1..3 :
            task_key_for_normalized(importer[1].records[i].normalized_name)
                = Some("leasing_prepare_agreement")
    /\ importer[1].rows[1].name # importer[1].rows[2].name
    /\ ~SetsStatus(importer[1].records[1])
    /\ importer[1].records[2].completed_on = None
    /\ importer[1].records[2].touched
    /\ importer[1].records[3].completed_on # None
    /\ \E t \in DOMAIN tasks :
            /\ tasks[t].template.key = "leasing_prepare_agreement"
            /\ tasks[t].status = "InProgress"
            /\ tasks[t].completed_on = None

====
